---- MODULE Spec2Model ----
(***************************************************************************)
(* The task queue and worker scheduler of gwtui: the task store, the       *)
(* execution store, the worker lock and stop marker, run_worker's startup  *)
(* and scheduling loop, execute_task and the process runners, together     *)
(* with the operator's actions on the same queue directory.                *)
(***************************************************************************)
EXTENDS Integers, Sequences, FiniteSets, TLC

\* ------------------------------------------------------------------ bounds

\* Executions (fresh execution ids) one behaviour may create.
MaxExecs == 3
\* Operator actions (reset, delete, stop request) one behaviour may hold.
MaxOps == 1
\* Starts of run_worker, over all worker processes.
MaxStarts == 2
\* The runner's timeout, in clock ticks (codex_timeout / claude_timeout).
Timeout == 1
\* The longest request_stop timeout, in polls of the lock file (200 ms each).
MaxStopPolls == 2
\* Idle polls a worker started with wait = true is followed through.
MaxIdlePolls == 3
\* TaskStorage calls a client makes.
MaxCalls == 2
\* Lines an agent writes to one of its streams.
MaxLines == 2

\* Task ids; an id stands for a string, ordered as the strings are.
TaskIds == {1, 2, 3}
\* Worker processes (their pids) that may run run_worker on the queue directory.
Workers == {1, 2}
\* Values of WorkerConfig.parallel.
Parallels == {1, 2}
\* Exit codes an agent process may end with.
ExitCodes == {0, 1}
\* Positions of a JoinSet that holds at most the largest parallel limit.
Positions == 1..(CHOOSE p \in Parallels : \A q \in Parallels : q <= p)

VARIABLES
    tasks,        \* task store: id -> Task, for the task-<id>.json files present
    execs,        \* execution store: execution_id -> ExecutionMetadata
    next_exec,    \* the next fresh execution id (ExecutionManager::new_execution_id)
    lock,         \* worker.lock: None, or Some(pid of the worker that wrote it)
    stop,         \* worker.stop is present
    parallel,     \* WorkerConfig.parallel
    wpc,          \* run_worker's position, per worker process
    wexit,        \* how the last run_worker of each process returned
    empty_polls,  \* run_worker's empty_polls
    joinset,      \* run_worker's JoinSet: the execute_task instances, in launch order
    starts,       \* run_worker starts so far
    ops,          \* operator actions so far
    faults,       \* what the environment of a behaviour may do wrong (fixed)
    wait,         \* WorkerConfig.wait
    req,          \* the request_stop call in progress, and its result
    dir,          \* the queue directory as files: file name -> content
    calls,        \* the TaskStorage calls in progress, per client
    output,       \* per stream of an agent: the lines it writes, the reader's position
    log           \* the log file of the execution: the entries appended

\* The queue directory at the level of files, and the calls working on it.
storage == <<dir, calls>>

\* The pipes of an agent and the log file its output goes to.
logging == <<output, log>>

vars == <<tasks, execs, next_exec, lock, stop, parallel, wpc, wexit,
          empty_polls, joinset, starts, ops, faults, wait, req, storage, logging>>

\* ------------------------------------------------------------- data model

\* Option<T>: None is the empty sequence, Some(x) the one-element sequence.
None == <<>>
Some(x) == <<x>>
IsSome(o) == o # <<>>
Unwrap(o) == o[1]

Min(a, b) == IF a < b THEN a ELSE b

\* An error text: its kind and, for a failed dependency, the id it names.
Err(kind) == [kind |-> kind, dep |-> 0]
DependencyFailed(dep) == [kind |-> "dependency failed", dep |-> dep]
StaleRunning == Err("previous worker stopped unexpectedly; task reset to pending")

\* A task as an enqueue operation creates it.
NewTask(id, runner, priority, depends_on) ==
    [id |-> id, runner |-> runner, priority |-> priority, depends_on |-> depends_on,
     status |-> "Pending", started_at |-> FALSE, completed_at |-> FALSE,
     session_id |-> None, last_error |-> None, verify |-> <<>>, auto_commit |-> FALSE]

\* The same with verify commands and the auto_commit flag.
WithPostSteps(task, verify, auto_commit) ==
    [task EXCEPT !.verify = verify, !.auto_commit = auto_commit]

\* The queues the worker may find at its first start.
InitialQueues ==
    { (1 :> NewTask(1, "claude", 80, <<>>) @@
       2 :> NewTask(2, "codex", 50, <<1>>) @@
       3 :> NewTask(3, "claude", 50, <<1, 2>>)),
      (1 :> NewTask(1, "codex", 50, <<>>) @@
       2 :> NewTask(2, "claude", 80, <<>>) @@
       3 :> NewTask(3, "claude", 50, <<>>)) }

\* ------------------------------------------------------------- task store

\* TaskStorage::save: create or replace the record of task.id.
Saved(store, task) ==
    [i \in DOMAIN store \cup {task.id} |-> IF i = task.id THEN task ELSE store[i]]

\* TaskStorage::delete: remove the record, absence is not an error.
Deleted(store, id) == [i \in DOMAIN store \ {id} |-> store[i]]

\* The order of list(): priority descending, then id ascending.
Before(a, b) ==
    \/ a.priority > b.priority
    \/ a.priority = b.priority /\ a.id < b.id

RECURSIVE SortTasks(_)
SortTasks(S) ==
    IF S = {} THEN <<>>
    ELSE LET m == CHOOSE x \in S : \A y \in S \ {x} : Before(x, y)
         IN  <<m>> \o SortTasks(S \ {m})

\* TaskStorage::list: every record, sorted.
List(store) == SortTasks({store[i] : i \in DOMAIN store})

\* ExecutionManager::save_metadata: create or replace the record of meta.execution_id.
SavedMeta(store, meta) ==
    [e \in DOMAIN store \cup {meta.execution_id} |->
        IF e = meta.execution_id THEN meta ELSE store[e]]

\* -------------------------------------------------------------- scheduler

\* ready_tasks' by_id: the listed tasks by id.
ById(list) ==
    [i \in {list[k].id : k \in DOMAIN list} |->
        LET k == CHOOSE k \in DOMAIN list : list[k].id = i IN list[k]]

\* ready_tasks' scan of one task's depends_on, from position i: "all_done" when
\* every dependency is Completed, "any_failed" when the first one that is not
\* Completed is Failed, "blocked" when it is in another status or resolves to no task.
RECURSIVE DepScan(_, _, _)
DepScan(deps, i, by_id) ==
    IF i > Len(deps) THEN "all_done"
    ELSE IF deps[i] \in DOMAIN by_id
         THEN CASE by_id[deps[i]].status = "Completed" -> DepScan(deps, i + 1, by_id)
                [] by_id[deps[i]].status = "Failed" -> "any_failed"
                [] OTHER -> "blocked"
         ELSE "blocked"

IsPending(t) == t.status \in {"Pending", "Waiting"}

\* A comparison that sorts priority ascending.
ReadyBeforeAscending(a, b, by_id) ==
    LET pa == IF a \in DOMAIN by_id THEN by_id[a].priority ELSE 0
        pb == IF b \in DOMAIN by_id THEN by_id[b].priority ELSE 0
    IN  pa < pb \/ (pb = pa /\ a < b)

\* The comparison of ready.sort_by: priority descending (0 for an unknown id),
\* then id ascending.
ReadyBefore(a, b, by_id) ==
    LET pa == IF a \in DOMAIN by_id THEN by_id[a].priority ELSE 0
        pb == IF b \in DOMAIN by_id THEN by_id[b].priority ELSE 0
    IN  pb < pa \/ (pb = pa /\ a < b)

\* A stable insertion of id into the sorted sequence.
RECURSIVE InsertReady(_, _, _)
InsertReady(sorted, id, by_id) ==
    IF sorted = <<>> THEN <<id>>
    ELSE IF ReadyBefore(id, Head(sorted), by_id)
         THEN <<id>> \o sorted
         ELSE <<Head(sorted)>> \o InsertReady(Tail(sorted), id, by_id)

RECURSIVE SortReady(_, _)
SortReady(ids, by_id) ==
    IF ids = <<>> THEN <<>>
    ELSE InsertReady(SortReady(SubSeq(ids, 1, Len(ids) - 1), by_id), ids[Len(ids)], by_id)

\* The ids ready_tasks pushes, in the order of the listing.
RECURSIVE ReadyUnsorted(_, _, _)
ReadyUnsorted(list, k, by_id) ==
    IF k > Len(list) THEN <<>>
    ELSE LET t == list[k]
             rest == ReadyUnsorted(list, k + 1, by_id)
         IN  IF IsPending(t) /\ DepScan(t.depends_on, 1, by_id) \in {"all_done", "any_failed"}
             THEN <<t.id>> \o rest
             ELSE rest

\* A ready set that reports no pending task.
ready_tasks_unaware(list) ==
    [ready |-> SortReady(ReadyUnsorted(list, 1, ById(list)), ById(list)),
     has_pending |-> FALSE]

\* ready_tasks: (ready, has_pending).
ready_tasks(list) ==
    [ready |-> SortReady(ReadyUnsorted(list, 1, ById(list)), ById(list)),
     has_pending |-> \E k \in DOMAIN list : IsPending(list[k])]

\* first_failed_dependency: the first dependency, in depends_on order, whose
\* record loads and is Failed.
RECURSIVE FirstFailedFrom(_, _, _)
FirstFailedFrom(store, deps, i) ==
    IF i > Len(deps) THEN None
    ELSE IF deps[i] \in DOMAIN store /\ store[deps[i]].status = "Failed"
         THEN Some(deps[i])
         ELSE FirstFailedFrom(store, deps, i + 1)

\* The last Failed dependency in depends_on order instead of the first.
last_failed_dependency(store, task) ==
    LET deps == task.depends_on
        failed == {i \in DOMAIN deps : deps[i] \in DOMAIN store /\ store[deps[i]].status = "Failed"}
    IN  IF failed = {} THEN None
        ELSE Some(deps[CHOOSE i \in failed : \A j \in failed : j <= i])

first_failed_dependency(store, task) == FirstFailedFrom(store, task.depends_on, 1)

\* A capacity that does not count the executions in flight.
CapacityIgnoringActive(limit, active) == limit

\* run_worker's capacity: parallel.saturating_sub(active).
Capacity(limit, active) == IF limit > active THEN limit - active ELSE 0

\* ready.into_iter().take(capacity).
Take(ready, capacity) == SubSeq(ready, 1, Min(capacity, Len(ready)))

\* A start without crash recovery.
keep_stale_running_tasks(store) == store

\* A crash recovery that makes the task look as if it had never been started.
reset_stale_running_tasks_afresh(store) ==
    [i \in DOMAIN store |->
        IF store[i].status = "Running"
        THEN [store[i] EXCEPT !.status = "Pending", !.last_error = Some(StaleRunning),
                              !.started_at = FALSE, !.session_id = None]
        ELSE store[i]]

\* reset_stale_running_tasks: every listed Running task is saved as Pending
\* with the explanatory last_error.
reset_stale_running_tasks(store) ==
    [i \in DOMAIN store |->
        IF store[i].status = "Running"
        THEN [store[i] EXCEPT !.status = "Pending", !.last_error = Some(StaleRunning)]
        ELSE store[i]]

\* An execute_task future as joinset.spawn creates it: nothing has run yet.
NewInstance(task_id) ==
    [tid |-> task_id, pc |-> "spawned", task |-> None, meta |-> None,
     child |-> "none", code |-> None, age |-> 0, waited |-> 0,
     success |-> TRUE, exit_code |-> None, err_str |-> None, ret |-> "none",
     ran |-> <<>>, commit |-> "none", drains |-> {"stdout", "stderr"}]

RECURSIVE Spawned(_)
Spawned(ids) ==
    IF ids = <<>> THEN <<>> ELSE <<NewInstance(Head(ids))>> \o Spawned(Tail(ids))

IsFinished(inst) == inst.pc = "finished"
Unfinished(js) == SelectSeq(js, LAMBDA inst : ~IsFinished(inst))

\* A request_stop call: not made, past load_worker_lock with a lock found,
\* polling for the lock file to go (with the caller's timeout and the polls
\* slept so far), or returned with its result.
NoRequest == [pc |-> "none", timeout |-> 0, slept |-> 0, result |-> FALSE]

\* ------------------------------------------------------------------- Init

\* The state when the first worker is started: a queue of Pending tasks, no
\* execution record, no lock file and no stop marker.
InitConfigured(stores, parallels, environments, waits) ==
    /\ tasks \in stores
    /\ parallel \in parallels
    /\ faults \in environments
    /\ wait \in waits
    /\ req = NoRequest
    /\ dir = <<>>
    /\ calls = <<>>
    /\ output = <<>>
    /\ log = <<>>
    /\ execs = <<>>
    /\ next_exec = 1
    /\ lock = None
    /\ stop = FALSE
    /\ wpc = [w \in Workers |-> "off"]
    /\ wexit = [w \in Workers |-> "none"]
    /\ empty_polls = [w \in Workers |-> 0]
    /\ joinset = [w \in Workers |-> <<>>]
    /\ starts = 0
    /\ ops = 0

\* The same for a worker started without --wait.
InitWith(stores, parallels, environments) == InitConfigured(stores, parallels, environments, {FALSE})

\* ------------------------------------------------------------- run_worker

\* A guard that removes the lock file only.
GuardDropLockOnly ==
    /\ lock' = None
    /\ stop' = stop

\* WorkerGuard::drop: remove the lock file and the stop marker.
GuardDrop ==
    /\ lock' = None
    /\ stop' = FALSE

\* A lock check that creates the guard first, so that a refused start drops it.
StartCheckGuardFirst(w) ==
    /\ wpc[w] = "off"
    /\ starts < MaxStarts
    /\ starts' = starts + 1
    /\ IF IsSome(lock)
       THEN /\ wexit' = [wexit EXCEPT ![w] = "already running"]
            /\ GuardDrop
            /\ UNCHANGED wpc
       ELSE /\ wpc' = [wpc EXCEPT ![w] = "checked"]
            /\ wexit' = [wexit EXCEPT ![w] = "none"]
            /\ UNCHANGED <<lock, stop>>
    /\ UNCHANGED <<tasks, execs, next_exec, parallel, empty_polls, joinset, ops, faults, wait, req, storage, logging>>

\* run_worker up to the lock check: with worker.lock present it bails with
\* "worker already running" (no guard exists yet), otherwise it goes on.
StartCheck(w) ==
    /\ wpc[w] = "off"
    /\ starts < MaxStarts
    /\ starts' = starts + 1
    /\ IF IsSome(lock)
       THEN /\ wexit' = [wexit EXCEPT ![w] = "already running"]
            /\ UNCHANGED wpc
       ELSE /\ wpc' = [wpc EXCEPT ![w] = "checked"]
            /\ wexit' = [wexit EXCEPT ![w] = "none"]
    /\ UNCHANGED <<tasks, execs, next_exec, lock, stop, parallel, empty_polls, joinset, ops, faults, wait, req, storage, logging>>

\* The lock file is written with this process's pid and the guard is created.
WriteLock(w) ==
    /\ wpc[w] = "checked"
    /\ lock' = Some(w)
    /\ wpc' = [wpc EXCEPT ![w] = "locked"]
    /\ UNCHANGED <<tasks, execs, next_exec, stop, parallel, wexit, empty_polls, joinset,
                   starts, ops, faults, wait, req, storage, logging>>

\* Crash recovery, then the ticker, the JoinSet and empty_polls = 0.
Recover(w) ==
    /\ wpc[w] = "locked"
    /\ tasks' = reset_stale_running_tasks(tasks)
    /\ wpc' = [wpc EXCEPT ![w] = "recovered"]
    /\ empty_polls' = [empty_polls EXCEPT ![w] = 0]
    /\ joinset' = [joinset EXCEPT ![w] = <<>>]
    /\ UNCHANGED <<execs, next_exec, lock, stop, parallel, wexit, starts, ops, faults, wait, req, storage, logging>>

\* An idle exit that does not look at wait.
IdleExitIgnoringWait(waiting, polls) == polls >= 2

\* The loop's idle exit: !cfg.wait && empty_polls >= 2.
IdleExit(waiting, polls) == ~waiting /\ polls >= 2

\* One iteration of the loop, woken by the ticker or by a finished execution:
\* stop check, reaping, capacity, listing, ready set, idle count, launches.
LoopIteration(w) ==
    /\ wpc[w] \in {"recovered", "loop"}
    /\ IF stop
       THEN /\ wpc' = [wpc EXCEPT ![w] = "drain"]
            /\ UNCHANGED <<empty_polls, joinset>>
       ELSE LET js == Unfinished(joinset[w])
                active == Len(js)
                capacity == Capacity(parallel, active)
                r == ready_tasks(List(tasks))
            IN  IF capacity = 0
                THEN /\ wpc' = [wpc EXCEPT ![w] = "loop"]
                     /\ joinset' = [joinset EXCEPT ![w] = js]
                     /\ UNCHANGED empty_polls
                ELSE IF r.ready = <<>> /\ ~r.has_pending /\ active = 0
                THEN /\ empty_polls[w] < MaxIdlePolls
                     /\ empty_polls' = [empty_polls EXCEPT ![w] = @ + 1]
                     /\ wpc' = [wpc EXCEPT ![w] =
                                   IF IdleExit(wait, empty_polls[w] + 1) THEN "drain" ELSE "loop"]
                     /\ joinset' = [joinset EXCEPT ![w] = js]
                ELSE /\ empty_polls' = [empty_polls EXCEPT ![w] = 0]
                     /\ wpc' = [wpc EXCEPT ![w] = "loop"]
                     /\ joinset' = [joinset EXCEPT ![w] =
                                       js \o Spawned(Take(r.ready, capacity))]
    /\ UNCHANGED <<tasks, execs, next_exec, lock, stop, parallel, wexit, starts, ops, faults, wait, req, storage, logging>>

\* ctrl_c wins the select: the loop breaks.
Interrupt(w) ==
    /\ wpc[w] \in {"recovered", "loop"}
    /\ wpc' = [wpc EXCEPT ![w] = "drain"]
    /\ UNCHANGED <<tasks, execs, next_exec, lock, stop, parallel, wexit, empty_polls,
                   joinset, starts, ops, faults, wait, req, storage, logging>>

\* A return that does not wait for the executions in flight.
WorkerReturnAtOnce(w) ==
    /\ wpc[w] = "drain"
    /\ joinset' = [joinset EXCEPT ![w] = <<>>]
    /\ wpc' = [wpc EXCEPT ![w] = "off"]
    /\ wexit' = [wexit EXCEPT ![w] = "ok"]
    /\ GuardDrop
    /\ UNCHANGED <<tasks, execs, next_exec, parallel, empty_polls, starts, ops, faults, wait,
                   req, storage, logging>>

\* Graceful shutdown: every in-flight execution has been joined; run_worker
\* returns Ok and the guard is dropped.
WorkerReturn(w) ==
    /\ wpc[w] = "drain"
    /\ \A k \in DOMAIN joinset[w] : IsFinished(joinset[w][k])
    /\ joinset' = [joinset EXCEPT ![w] = <<>>]
    /\ wpc' = [wpc EXCEPT ![w] = "off"]
    /\ wexit' = [wexit EXCEPT ![w] = "ok"]
    /\ GuardDrop
    /\ UNCHANGED <<tasks, execs, next_exec, parallel, empty_polls, starts, ops, faults, wait, req, storage, logging>>

\* run_worker returns an error after the lock was written: the listing of crash
\* recovery or of a loop iteration failed. The JoinSet is dropped, which aborts
\* the executions in flight, and the guard is dropped.
WorkerError(w) ==
    /\ "list" \in faults
    /\ wpc[w] \in {"locked", "recovered", "loop"}
    /\ wpc[w] # "locked" => ~stop /\ Capacity(parallel, Len(Unfinished(joinset[w]))) > 0
    /\ joinset' = [joinset EXCEPT ![w] = <<>>]
    /\ wpc' = [wpc EXCEPT ![w] = "off"]
    /\ wexit' = [wexit EXCEPT ![w] = "error"]
    /\ GuardDrop
    /\ UNCHANGED <<tasks, execs, next_exec, parallel, empty_polls, starts, ops, faults, wait,
                   req, storage, logging>>

\* The worker process dies (killed, power loss): its executions die with it,
\* no destructor runs, the lock file and the task records stay as they are.
Crash(w) ==
    /\ wpc[w] \in {"locked", "recovered", "loop", "drain"}
    /\ wpc' = [wpc EXCEPT ![w] = "off"]
    /\ wexit' = [wexit EXCEPT ![w] = "crashed"]
    /\ joinset' = [joinset EXCEPT ![w] = <<>>]
    /\ UNCHANGED <<tasks, execs, next_exec, lock, stop, parallel, empty_polls, starts, ops, faults, wait, req, storage, logging>>

\* ----------------------------------------------------------- execute_task

\* The instance at position k of w's JoinSet replaced by inst.
WithInstance(w, k, inst) == [joinset EXCEPT ![w][k] = inst]

\* execute_task returns: the future is finished and waits to be joined.
Finished(inst, ret) == [inst EXCEPT !.pc = "finished", !.ret = ret]

\* ExecutionManager::new_execution_id: "exec-" and six hexadecimal digits of
\* a random UUID. The draw is an id no attempt had before, or, where the
\* environment lets the generator repeat itself, any id drawn so far.
new_execution_id ==
    IF "collision" \in faults THEN 1..next_exec ELSE {next_exec}

\* The ExecutionMetadata execute_task creates for a new attempt.
NewMeta(execution_id, task) ==
    [execution_id |-> execution_id, task_id |-> task.id, status |-> "Running",
     working_directory |-> FALSE, end_time |-> FALSE, exit_code |-> None, error |-> None]

\* The record execute_task saves when a dependency has failed.
FailFast(task, dep) ==
    [task EXCEPT !.status = "Failed", !.last_error = Some(DependencyFailed(dep)),
                 !.completed_at = TRUE]

\* The record execute_task saves before the attempt: Running, with the fresh
\* execution id as session_id.
MarkRunning(task, execution_id) ==
    [task EXCEPT !.status = "Running", !.started_at = TRUE, !.last_error = None,
                 !.session_id = Some(execution_id)]

\* execute_task from its first poll to the first save of the execution record:
\* load the task (an error ends the future), fail fast on a failed dependency,
\* otherwise mark the task Running and create the Running execution record.
ExecBegin(w, k) ==
    LET inst == joinset[w][k] IN
    /\ k \in DOMAIN joinset[w]
    /\ inst.pc = "spawned"
    /\ IF inst.tid \notin DOMAIN tasks
       THEN /\ joinset' = WithInstance(w, k, Finished(inst, "err"))
            /\ UNCHANGED <<tasks, execs, next_exec>>
       ELSE LET task == tasks[inst.tid]
                failed == first_failed_dependency(tasks, task)
            IN  IF IsSome(failed)
                THEN /\ tasks' = Saved(tasks, FailFast(task, Unwrap(failed)))
                     /\ joinset' = WithInstance(w, k,
                            Finished([inst EXCEPT !.task = Some(FailFast(task, Unwrap(failed)))],
                                     "ok"))
                     /\ UNCHANGED <<execs, next_exec>>
                ELSE /\ next_exec <= MaxExecs
                     /\ \E e \in new_execution_id :
                            /\ tasks' = Saved(tasks, MarkRunning(task, e))
                            /\ execs' = SavedMeta(execs, NewMeta(e, task))
                            /\ joinset' = WithInstance(w, k,
                                   [inst EXCEPT !.pc = "resolve",
                                                !.task = Some(MarkRunning(task, e)),
                                                !.meta = Some(NewMeta(e, task))])
                     /\ next_exec' = next_exec + 1
    /\ UNCHANGED <<lock, stop, parallel, wpc, wexit, empty_polls, starts, ops, faults, wait, req, storage, logging>>

\* A terminal ExecutionMetadata that leaves the error out.
FinalMetaWithoutError(meta, success, exit_code, err_str) ==
    [meta EXCEPT !.status = IF success THEN "Completed" ELSE "Failed",
                 !.end_time = TRUE, !.exit_code = exit_code]

\* The terminal ExecutionMetadata of an attempt (execute_task's last save of it).
FinalMeta(meta, success, exit_code, err_str) ==
    [meta EXCEPT !.status = IF success THEN "Completed" ELSE "Failed",
                 !.end_time = TRUE, !.exit_code = exit_code, !.error = err_str]

\* The runner returned an error (spawn failure, unsupported runner, timeout):
\* no exit code, no post-steps; the execution record is saved Failed.
RunnerErr(inst, kind) ==
    [inst EXCEPT !.pc = "save_task", !.success = FALSE, !.exit_code = None,
                 !.err_str = Some(Err(kind)),
                 !.meta = Some(FinalMeta(Unwrap(inst.meta), FALSE, None, Some(Err(kind))))]

\* A resolution failure that marks the records and starts the agent all the same.
ResolutionFailedSpawning(inst) ==
    LET msg == Err("worktree resolution failed")
        m == [Unwrap(inst.meta) EXCEPT !.status = "Failed", !.end_time = TRUE,
                                       !.exit_code = Some(1), !.error = Some(msg)]
        t == [Unwrap(inst.task) EXCEPT !.status = "Failed", !.completed_at = TRUE,
                                       !.last_error = Some(msg)]
    IN  [inst EXCEPT !.task = Some(t), !.meta = Some(m), !.pc = "wait", !.child = "alive"]

\* The error arm of resolve_repo_and_worktree in execute_task: the execution
\* record and the task are marked Failed with the error, and execute_task
\* returns Ok without a runner.
ResolutionFailed(inst) ==
    LET msg == Err("worktree resolution failed")
        m == [Unwrap(inst.meta) EXCEPT !.status = "Failed", !.end_time = TRUE,
                                       !.exit_code = Some(1), !.error = Some(msg)]
        t == [Unwrap(inst.task) EXCEPT !.status = "Failed", !.completed_at = TRUE,
                                       !.last_error = Some(msg)]
    IN  Finished([inst EXCEPT !.task = Some(t), !.meta = Some(m),
                              !.success = FALSE, !.err_str = Some(msg)], "ok")

\* resolve_repo_and_worktree, then the start of the runner. On a resolution
\* error both records are saved Failed and no runner is invoked. Otherwise the
\* working directory is recorded and run_codex / run_claude opens the log and
\* spawns the child (an error is the runner's result). claude gets the prompt
\* as an argument; codex gets it written to the child's stdin, which completes
\* at once when the prompt fits the pipe and otherwise waits for the child.
ExecResolve(w, k) ==
    LET inst == joinset[w][k]
        task == Unwrap(inst.task)
        meta == [Unwrap(inst.meta) EXCEPT !.working_directory = TRUE]
        located == [inst EXCEPT !.meta = Some(meta)]
    IN
    /\ k \in DOMAIN joinset[w]
    /\ inst.pc = "resolve"
    /\ \/ /\ "worktree" \in faults
          /\ execs' = SavedMeta(execs, Unwrap(ResolutionFailed(inst).meta))
          /\ tasks' = Saved(tasks, Unwrap(ResolutionFailed(inst).task))
          /\ joinset' = WithInstance(w, k, ResolutionFailed(inst))
       \/ /\ task.runner \notin {"codex", "claude"}
          /\ execs' = SavedMeta(execs, Unwrap(RunnerErr(located, "unsupported runner").meta))
          /\ joinset' = WithInstance(w, k, RunnerErr(located, "unsupported runner"))
          /\ UNCHANGED tasks
       \/ /\ task.runner \in {"codex", "claude"}
          /\ "spawn" \in faults
          /\ execs' = SavedMeta(execs, Unwrap(RunnerErr(located, "failed to start").meta))
          /\ joinset' = WithInstance(w, k, RunnerErr(located, "failed to start"))
          /\ UNCHANGED tasks
       \/ /\ task.runner = "claude"
          /\ execs' = SavedMeta(execs, meta)
          /\ joinset' = WithInstance(w, k, [located EXCEPT !.pc = "wait", !.child = "alive"])
          /\ UNCHANGED tasks
       \/ /\ task.runner = "codex"
          /\ execs' = SavedMeta(execs, meta)
          /\ \E fits \in (IF "stdin" \in faults THEN BOOLEAN ELSE {TRUE}) :
                 joinset' = WithInstance(w, k,
                     [located EXCEPT !.pc = IF fits THEN "wait" ELSE "stdin",
                                     !.child = "alive"])
          /\ UNCHANGED tasks
    /\ UNCHANGED <<next_exec, lock, stop, parallel, wpc, wexit, empty_polls, starts, ops, faults, wait, req, storage, logging>>

\* run_codex's stdin.write_all returns: the child has read the prompt, or it
\* has exited and the write failed (the result is ignored). The timed wait begins.
StdinWritten(w, k) ==
    LET inst == joinset[w][k] IN
    /\ k \in DOMAIN joinset[w]
    /\ inst.pc = "stdin"
    /\ joinset' = WithInstance(w, k, [inst EXCEPT !.pc = "wait", !.waited = 0])
    /\ UNCHANGED <<tasks, execs, next_exec, lock, stop, parallel, wpc, wexit, empty_polls,
                   starts, ops, faults, wait, req, storage, logging>>

\* The pipes of an exited agent that have not reached end of file: a pipe
\* stays open while a process the agent started still holds its write end.
HeldPipes ==
    IF "inherit" \in faults THEN SUBSET {"stdout", "stderr"} ELSE {{}}

\* The agent process exits by itself. Its ends of the pipes are closed; a
\* reader task sees end of file unless a descendant holds the pipe.
ChildExit(w, k) ==
    LET inst == joinset[w][k] IN
    /\ k \in DOMAIN joinset[w]
    /\ inst.child = "alive"
    /\ \E c \in ExitCodes : \E held \in HeldPipes :
           /\ c # 0 => "exit" \in faults
           /\ joinset' = WithInstance(w, k,
                  [inst EXCEPT !.child = "exited", !.code = Some(c), !.drains = held])
    /\ UNCHANGED <<tasks, execs, next_exec, lock, stop, parallel, wpc, wexit, empty_polls,
                   starts, ops, faults, wait, req, storage, logging>>

\* The last holder of a pipe closes it: the reader task of that stream gets
\* end of file from next_line and ends.
StreamEof(w, k) ==
    LET inst == joinset[w][k] IN
    /\ k \in DOMAIN joinset[w]
    /\ inst.child = "exited"
    /\ \E stream \in inst.drains :
           joinset' = WithInstance(w, k, [inst EXCEPT !.drains = @ \ {stream}])
    /\ UNCHANGED <<tasks, execs, next_exec, lock, stop, parallel, wpc, wexit, empty_polls,
                   starts, ops, faults, wait, req, storage, logging>>

\* An outcome that reports a failed post-step as exit code 1.
OutcomeLosingCode(inst, code, post) ==
    IF code # 0
    THEN [inst EXCEPT !.success = FALSE, !.exit_code = Some(code),
                      !.err_str = Some(Err("runner exited with code"))]
    ELSE IF post # "ok"
    THEN [inst EXCEPT !.success = FALSE, !.exit_code = Some(1), !.err_str = Some(Err(post))]
    ELSE [inst EXCEPT !.success = TRUE, !.exit_code = Some(code), !.err_str = None]

\* What execute_task makes of an exit code and of the post-steps' outcome
\* ("ok", or the step that failed): success, exit_code and err_str.
Outcome(inst, code, post) ==
    IF code # 0
    THEN [inst EXCEPT !.success = FALSE, !.exit_code = Some(code),
                      !.err_str = Some(Err("runner exited with code"))]
    ELSE IF post # "ok"
    THEN [inst EXCEPT !.success = FALSE, !.exit_code = Some(code), !.err_str = Some(Err(post))]
    ELSE [inst EXCEPT !.success = TRUE, !.exit_code = Some(code), !.err_str = None]

\* A run of the verify commands that goes on after a failure.
RECURSIVE verify_all_commands(_, _, _)
verify_all_commands(commands, i, fail_at) ==
    IF i > Len(commands) THEN <<>>
    ELSE IF commands[i] = "" THEN verify_all_commands(commands, i + 1, fail_at)
    ELSE <<[no |-> i, ok |-> i # fail_at]>> \o verify_all_commands(commands, i + 1, fail_at)

\* run_verify_commands from command i on: an empty command is skipped, the
\* others run in list order, the first that fails (fail_at, 0 for none) ends
\* the run. The value is the commands run, each with its result.
RECURSIVE run_verify_commands(_, _, _)
run_verify_commands(commands, i, fail_at) ==
    IF i > Len(commands) THEN <<>>
    ELSE IF commands[i] = "" THEN run_verify_commands(commands, i + 1, fail_at)
    ELSE IF i = fail_at THEN <<[no |-> i, ok |-> FALSE]>>
    ELSE <<[no |-> i, ok |-> TRUE]>> \o run_verify_commands(commands, i + 1, fail_at)

\* The verify command the environment lets fail: none, or any command that runs.
VerifyFailures(commands) ==
    {0} \cup (IF "verification failed" \in faults
              THEN {i \in DOMAIN commands : commands[i] # ""} ELSE {})

\* What auto_commit may find: a clean tree (nothing to commit), a commit that
\* succeeds, or a git command that fails.
CommitOutcomes ==
    {"clean", "committed"} \cup (IF "auto-commit failed" \in faults THEN {"failed"} ELSE {})

\* The post-steps of execute_task: after a zero exit code the verify commands,
\* and after these succeeded, when auto_commit is set, the auto-commit.
PostSteps(task, code, fail_at, commit) ==
    IF code # 0 THEN [ran |-> <<>>, commit |-> "none", post |-> "ok"]
    ELSE LET ran == run_verify_commands(task.verify, 1, fail_at) IN
         IF \E j \in DOMAIN ran : ~ran[j].ok
         THEN [ran |-> ran, commit |-> "none", post |-> "verification failed"]
         ELSE IF ~task.auto_commit
         THEN [ran |-> ran, commit |-> "none", post |-> "ok"]
         ELSE [ran |-> ran, commit |-> commit,
               post |-> IF commit = "failed" THEN "auto-commit failed" ELSE "ok"]

\* The timed child.wait() returns the exit status, the stream readers are
\* awaited and the log flushed; after a zero exit code the verify commands and
\* the auto-commit run; the execution record is saved with its terminal status.
RunnerReturn(w, k) ==
    LET inst == joinset[w][k] IN
    /\ k \in DOMAIN joinset[w]
    /\ inst.pc = "wait"
    /\ inst.child = "exited"
    /\ inst.drains = {}
    /\ \E fail_at \in VerifyFailures(Unwrap(inst.task).verify) : \E commit \in CommitOutcomes :
           LET p == PostSteps(Unwrap(inst.task), Unwrap(inst.code), fail_at, commit)
               o == Outcome(inst, Unwrap(inst.code), p.post)
               m == FinalMeta(Unwrap(inst.meta), o.success, o.exit_code, o.err_str)
           IN  /\ execs' = SavedMeta(execs, m)
               /\ joinset' = WithInstance(w, k,
                      [o EXCEPT !.pc = "save_task", !.meta = Some(m),
                                !.ran = p.ran, !.commit = p.commit])
    /\ UNCHANGED <<tasks, next_exec, lock, stop, parallel, wpc, wexit, empty_polls,
                   starts, ops, faults, wait, req, storage, logging>>

\* The timed child.wait() elapses: the child is killed, the runner returns
\* "runner timed out" and the execution record is saved Failed.
WaitTimeout(w, k) ==
    LET inst == joinset[w][k]
        r == RunnerErr(inst, "runner timed out")
    IN
    /\ k \in DOMAIN joinset[w]
    /\ inst.pc = "wait"
    /\ inst.child = "alive"
    /\ inst.waited >= Timeout
    /\ execs' = SavedMeta(execs, Unwrap(r.meta))
    /\ joinset' = WithInstance(w, k, [r EXCEPT !.child = "killed"])
    /\ UNCHANGED <<tasks, next_exec, lock, stop, parallel, wpc, wexit, empty_polls,
                   starts, ops, faults, wait, req, storage, logging>>

\* The task record is saved with its terminal status; execute_task returns Ok.
ExecSaveTask(w, k) ==
    LET inst == joinset[w][k]
        t == [Unwrap(inst.task) EXCEPT
                 !.status = IF inst.success THEN "Completed" ELSE "Failed",
                 !.completed_at = TRUE, !.last_error = inst.err_str]
    IN
    /\ k \in DOMAIN joinset[w]
    /\ inst.pc = "save_task"
    /\ tasks' = Saved(tasks, t)
    /\ joinset' = WithInstance(w, k, Finished([inst EXCEPT !.task = Some(t)], "ok"))
    /\ UNCHANGED <<execs, next_exec, lock, stop, parallel, wpc, wexit, empty_polls,
                   starts, ops, faults, wait, req, storage, logging>>

\* A load or a save of execute_task returns an error and its `?` ends the
\* future with it: the load or a save of the task record before anything was
\* written, the save of the session id, the first save of the execution record,
\* a save during or after worktree resolution, the last save of the execution
\* record, or the last save of the task record.
ExecIoError(w, k) ==
    LET inst == joinset[w][k] IN
    /\ k \in DOMAIN joinset[w]
    /\ "io" \in faults
    /\ \/ /\ \/ inst.pc = "spawned" /\ inst.tid \in DOMAIN tasks
             \/ inst.pc = "resolve"
             \/ inst.pc = "wait" /\ inst.child = "exited" /\ inst.drains = {}
             \/ inst.pc = "save_task"
          /\ UNCHANGED <<tasks, execs, next_exec>>
       \/ /\ inst.pc = "spawned" /\ inst.tid \in DOMAIN tasks
          /\ ~IsSome(first_failed_dependency(tasks, tasks[inst.tid]))
          /\ tasks' = Saved(tasks, [tasks[inst.tid] EXCEPT !.status = "Running",
                                       !.started_at = TRUE, !.last_error = None])
          /\ UNCHANGED <<execs, next_exec>>
       \/ /\ inst.pc = "spawned" /\ inst.tid \in DOMAIN tasks
          /\ ~IsSome(first_failed_dependency(tasks, tasks[inst.tid]))
          /\ next_exec <= MaxExecs
          /\ tasks' = Saved(tasks, MarkRunning(tasks[inst.tid], next_exec))
          /\ next_exec' = next_exec + 1
          /\ UNCHANGED execs
       \/ /\ inst.pc = "resolve"
          /\ "worktree" \in faults
          /\ execs' = SavedMeta(execs,
                 [Unwrap(inst.meta) EXCEPT !.status = "Failed", !.end_time = TRUE,
                      !.exit_code = Some(1),
                      !.error = Some(Err("worktree resolution failed"))])
          /\ UNCHANGED <<tasks, next_exec>>
    /\ joinset' = WithInstance(w, k, Finished(inst, "err"))
    /\ UNCHANGED <<lock, stop, parallel, wpc, wexit, empty_polls, starts, ops, faults, wait,
                   req, storage, logging>>

\* The runner of the instance is waiting for time to pass: its child lives,
\* or it awaits a reader task whose pipe is still open.
Timed(inst) ==
    \/ inst.child = "alive"
    \/ inst.pc = "wait" /\ inst.child = "exited" /\ inst.drains # {}

\* One tick of the clock, seen by every runner that waits. A timed wait whose
\* timeout has elapsed returns before more time passes.
Tick ==
    /\ \E w \in Workers : \E k \in DOMAIN joinset[w] :
           Timed(joinset[w][k]) /\ joinset[w][k].age <= Timeout
    /\ \A w \in Workers : \A k \in DOMAIN joinset[w] :
           joinset[w][k].pc = "wait" /\ joinset[w][k].child = "alive"
               => joinset[w][k].waited < Timeout
    /\ joinset' = [w \in Workers |->
                      [k \in DOMAIN joinset[w] |->
                          LET inst == joinset[w][k] IN
                          IF Timed(inst) /\ inst.age <= Timeout
                          THEN [inst EXCEPT !.age = @ + 1,
                                            !.waited = IF inst.pc = "wait" THEN @ + 1 ELSE @]
                          ELSE inst]]
    /\ UNCHANGED <<tasks, execs, next_exec, lock, stop, parallel, wpc, wexit, empty_polls,
                   starts, ops, faults, wait, req, storage, logging>>

\* --------------------------------------------------------------- operator

\* A reset that keeps the last error.
ResetTaskKeepingError(task) ==
    [task EXCEPT !.status = "Pending", !.started_at = FALSE, !.completed_at = FALSE,
                 !.session_id = None]

\* The dashboard's reset of a task (reset_selected_task).
ResetTask(task) ==
    [task EXCEPT !.status = "Pending", !.started_at = FALSE, !.completed_at = FALSE,
                 !.session_id = None, !.last_error = None]

OperatorReset(id) ==
    /\ ops < MaxOps
    /\ id \in DOMAIN tasks
    /\ tasks' = Saved(tasks, ResetTask(tasks[id]))
    /\ ops' = ops + 1
    /\ UNCHANGED <<execs, next_exec, lock, stop, parallel, wpc, wexit, empty_polls,
                   joinset, starts, faults, wait, req, storage, logging>>

\* The dashboard's deletion of a task (delete_task_by_id).
OperatorDelete(id) ==
    /\ ops < MaxOps
    /\ id \in DOMAIN tasks
    /\ tasks' = Deleted(tasks, id)
    /\ ops' = ops + 1
    /\ UNCHANGED <<execs, next_exec, lock, stop, parallel, wpc, wexit, empty_polls,
                   joinset, starts, faults, wait, req, storage, logging>>

\* An enqueue operation: a new Pending task is saved under an id the store
\* does not hold.
Enqueue(id) ==
    /\ id \notin DOMAIN tasks
    /\ \E q \in InitialQueues : tasks' = Saved(tasks, q[id])
    /\ UNCHANGED <<execs, next_exec, lock, stop, parallel, wpc, wexit, empty_polls,
                   joinset, starts, ops, faults, wait, req, storage, logging>>

\* request_stop up to load_worker_lock: without a worker lock it returns false
\* at once, otherwise it goes on to write the stop marker.
RequestStop ==
    /\ ops < MaxOps
    /\ req.pc \notin {"loaded", "polling"}
    /\ ops' = ops + 1
    /\ \E t \in 0..MaxStopPolls :
           req' = [pc |-> IF IsSome(lock) THEN "loaded" ELSE "returned",
                   timeout |-> t, slept |-> 0, result |-> FALSE]
    /\ UNCHANGED <<tasks, execs, next_exec, lock, stop, parallel, wpc, wexit, empty_polls,
                   joinset, starts, faults, wait, storage, logging>>

\* request_stop writes the stop marker, whatever has become of the lock file
\* since it was loaded, and the polling begins.
StopWrite ==
    /\ req.pc = "loaded"
    /\ stop' = TRUE
    /\ req' = [req EXCEPT !.pc = "polling"]
    /\ UNCHANGED <<tasks, execs, next_exec, lock, parallel, wpc, wexit, empty_polls,
                   joinset, starts, ops, faults, wait, storage, logging>>

\* A polling loop that reports success when the timeout has elapsed.
StopPollHopeful ==
    /\ req.pc = "polling"
    /\ req' = IF req.slept >= req.timeout \/ ~IsSome(lock)
              THEN [req EXCEPT !.pc = "returned", !.result = TRUE]
              ELSE [req EXCEPT !.slept = @ + 1]
    /\ UNCHANGED <<tasks, execs, next_exec, lock, stop, parallel, wpc, wexit, empty_polls,
                   joinset, starts, ops, faults, wait, storage, logging>>

\* One turn of request_stop's polling loop: when the timeout has elapsed it
\* returns false; otherwise it returns true when the lock file is gone, and
\* sleeps one poll when it is not.
StopPoll ==
    /\ req.pc = "polling"
    /\ req' = IF req.slept >= req.timeout THEN [req EXCEPT !.pc = "returned", !.result = FALSE]
              ELSE IF ~IsSome(lock) THEN [req EXCEPT !.pc = "returned", !.result = TRUE]
              ELSE [req EXCEPT !.slept = @ + 1]
    /\ UNCHANGED <<tasks, execs, next_exec, lock, stop, parallel, wpc, wexit, empty_polls,
                   joinset, starts, ops, faults, wait, storage, logging>>

\* The operator removes the lock file of a worker process that is dead.
RemoveStaleLock ==
    /\ IsSome(lock)
    /\ wpc[Unwrap(lock)] = "off"
    /\ lock' = None
    /\ UNCHANGED <<tasks, execs, next_exec, stop, parallel, wpc, wexit, empty_polls,
                   joinset, starts, ops, faults, wait, req, storage, logging>>

\* ---------------------------------------------------------- specifications

\* run_worker of process w.
WorkerStep(w) ==
    \/ StartCheck(w)
    \/ WriteLock(w)
    \/ Recover(w)
    \/ LoopIteration(w)
    \/ Interrupt(w)
    \/ WorkerReturn(w)

\* execute_task of the instance at position k, with children that exit.
ExecStep(w, k) ==
    \/ ExecBegin(w, k)
    \/ ExecResolve(w, k)
    \/ ChildExit(w, k)
    \/ RunnerReturn(w, k)
    \/ ExecSaveTask(w, k)

\* The scheduler: one worker process, its executions, and enqueues; agents
\* may fail.
Init == InitWith(UNION {{q, Deleted(q, 3)} : q \in InitialQueues}, Parallels, {{"exit"}})

Next ==
    \/ WorkerStep(1)
    \/ \E k \in Positions : ExecStep(1, k)
    \/ \E id \in TaskIds : Enqueue(id)

Spec == Init /\ [][Next]_vars

\* The scheduler with an operator who resets and deletes tasks.
InitOperator == InitWith(InitialQueues, Parallels, {{"exit"}})

NextOperator ==
    \/ WorkerStep(1)
    \/ \E k \in Positions : ExecStep(1, k)
    \/ \E id \in TaskIds : OperatorReset(id)
    \/ \E id \in TaskIds : OperatorDelete(id)

SpecOperator == InitOperator /\ [][NextOperator]_vars

\* The scheduler with a worker process that may die and be started again once
\* the operator has removed its lock file.
InitRecovery == InitWith(InitialQueues, Parallels, {{"exit"}})

NextRecovery ==
    \/ WorkerStep(1)
    \/ \E k \in Positions : ExecStep(1, k)
    \/ Crash(1)
    \/ RemoveStaleLock

SpecRecovery == InitRecovery /\ [][NextRecovery]_vars

\* Two worker processes started on the same queue directory.
InitTwoWorkers == InitWith(InitialQueues, {1}, {{}})

NextTwoWorkers ==
    \/ \E w \in Workers : WorkerStep(w)
    \/ \E w \in Workers : \E k \in Positions : ExecStep(w, k)
    \/ RequestStop
    \/ StopWrite

SpecTwoWorkers == InitTwoWorkers /\ [][NextTwoWorkers]_vars

\* The scheduler with a clock and children that may never exit.
InitRunner == InitWith(InitialQueues, Parallels, {{"stdin"}})

NextRunner ==
    \/ WorkerStep(1)
    \/ \E k \in Positions : ExecStep(1, k)
    \/ \E k \in Positions : StdinWritten(1, k)
    \/ \E k \in Positions : WaitTimeout(1, k)
    \/ Tick

SpecRunner == InitRunner /\ [][NextRunner]_vars

\* The scheduler with stop requests and interrupts, on queues of two tasks.
InitStop == InitWith({Deleted(q, 3) : q \in InitialQueues}, Parallels, {{}})

NextStop ==
    \/ WorkerStep(1)
    \/ \E k \in Positions : ExecStep(1, k)
    \/ RequestStop
    \/ StopWrite
    \/ StopPoll

SpecStop == InitStop /\ [][NextStop]_vars

\* Every way run_worker returns: idle exit, stop marker, interrupt, and the error
\* of a listing that fails, on queues of one task.
InitCleanup == InitWith({Deleted(Deleted(q, 3), 1) : q \in InitialQueues}, Parallels, {{"list"}})

NextCleanup ==
    \/ WorkerStep(1)
    \/ \E k \in Positions : ExecStep(1, k)
    \/ WorkerError(1)
    \/ RequestStop
    \/ StopWrite

SpecCleanup == InitCleanup /\ [][NextCleanup]_vars

\* The scheduler started with or without --wait, with enqueues.
InitIdle ==
    InitConfigured({Deleted(q, 3) : q \in InitialQueues}, Parallels, {{}}, BOOLEAN)

NextIdle ==
    \/ WorkerStep(1)
    \/ \E k \in Positions : ExecStep(1, k)
    \/ \E id \in TaskIds : Enqueue(id)

SpecIdle == InitIdle /\ [][NextIdle]_vars

\* The scheduler with an operator who resets tasks, on queues of two tasks.
InitReset == InitWith({Deleted(q, 3) : q \in InitialQueues}, {1}, {{"exit"}})

NextReset ==
    \/ WorkerStep(1)
    \/ \E k \in Positions : ExecStep(1, k)
    \/ \E id \in TaskIds : OperatorReset(id)

SpecReset == InitReset /\ [][NextReset]_vars

\* The scheduler on queues with a dependency that resolves to no task, with
\* agents that may fail and enqueues.
InitUnresolved ==
    InitWith({Deleted(q, i) : q \in InitialQueues, i \in {1, 2}}, Parallels, {{"exit"}})

NextUnresolved ==
    \/ WorkerStep(1)
    \/ \E k \in Positions : ExecStep(1, k)
    \/ \E id \in TaskIds : Enqueue(id)

SpecUnresolved == InitUnresolved /\ [][NextUnresolved]_vars

\* A queue with a task whose runner is neither codex nor claude.
FaultQueues ==
    { (1 :> NewTask(1, "codex", 50, <<>>) @@ 2 :> NewTask(2, "shell", 50, <<>>)) }

\* The scheduler in an environment where every step of execute_task may fail.
InitFaults ==
    InitWith(FaultQueues, Parallels,
             {{"io", "worktree"}})

NextFaults ==
    \/ WorkerStep(1)
    \/ \E k \in Positions : ExecStep(1, k)
    \/ \E k \in Positions : ExecIoError(1, k)

SpecFaults == InitFaults /\ [][NextFaults]_vars

\* Two independent tasks and a third that depends on both, in that order.
JoinQueues ==
    { (1 :> NewTask(1, "codex", 50, <<>>) @@
       2 :> NewTask(2, "codex", 50, <<>>) @@
       3 :> NewTask(3, "codex", 50, <<1, 2>>)) }

\* The scheduler on such a queue, with agents that may fail.
InitJoin == InitWith(JoinQueues, Parallels, {{"exit"}})

NextJoin ==
    \/ WorkerStep(1)
    \/ \E k \in Positions : ExecStep(1, k)

SpecJoin == InitJoin /\ [][NextJoin]_vars

\* A task with verify commands (one of them empty), with and without
\* auto_commit.
AttemptQueues ==
    { (1 :> WithPostSteps(NewTask(1, "codex", 50, <<>>), <<"lint", "", "test">>, a))
        : a \in BOOLEAN }

\* The scheduler on such a task, in an environment where the resolution, the
\* spawn, the agent, a verify command and the auto-commit may fail and the
\* agent may run into the timeout.
InitAttempt ==
    InitWith(AttemptQueues, Parallels,
             {{"worktree", "spawn", "exit", "verification failed", "auto-commit failed"}})

NextAttempt ==
    \/ WorkerStep(1)
    \/ \E k \in Positions : ExecStep(1, k)
    \/ \E k \in Positions : WaitTimeout(1, k)
    \/ Tick

SpecAttempt == InitAttempt /\ [][NextAttempt]_vars

\* One task per runner, neither depending on the other.
DrainQueues ==
    { (1 :> NewTask(1, "claude", 50, <<>>) @@ 2 :> NewTask(2, "codex", 50, <<>>)) }

\* The scheduler with a clock and agents that leave descendants behind which
\* keep the agent's stdout or stderr pipe open after the agent has exited.
InitDrain == InitWith(DrainQueues, {1}, {{"inherit"}})

NextDrain ==
    \/ WorkerStep(1)
    \/ \E k \in Positions : ExecStep(1, k)
    \/ \E k \in Positions : StreamEof(1, k)
    \/ \E k \in Positions : WaitTimeout(1, k)
    \/ Tick

SpecDrain == InitDrain /\ [][NextDrain]_vars

\* A chain of dependencies: task 3 depends on task 2, which depends on task 1.
ChainQueues ==
    { (1 :> NewTask(1, "claude", 80, <<>>) @@
       2 :> NewTask(2, "codex", 50, <<1>>) @@
       3 :> NewTask(3, "claude", 50, <<2>>)) }

\* run_worker of process w when nobody interrupts it.
WorkerProgress(w) ==
    \/ StartCheck(w)
    \/ WriteLock(w)
    \/ Recover(w)
    \/ LoopIteration(w)
    \/ WorkerReturn(w)

\* The scheduler left alone (no interrupt, no stop request, no operator) with
\* one execution at a time, a clock, agents that may fail or run into the
\* timeout, and descendants that may keep a pipe of an exited agent open.
InitTermination == InitWith(ChainQueues, {1}, {{"exit", "inherit"}})

NextTermination ==
    \/ WorkerProgress(1)
    \/ \E k \in Positions : ExecStep(1, k)
    \/ \E k \in Positions : StreamEof(1, k)
    \/ \E k \in Positions : WaitTimeout(1, k)
    \/ Tick

\* The runtime polls every future that can go on, the ticker wakes the loop,
\* the clock advances and every agent run ends, by exit or by timeout. Nothing
\* makes a descendant of an agent close the pipe it holds.
FairTermination ==
    /\ WF_vars(WorkerProgress(1))
    /\ \A k \in Positions :
           /\ WF_vars(ExecBegin(1, k) \/ ExecResolve(1, k) \/ RunnerReturn(1, k) \/ ExecSaveTask(1, k))
           /\ WF_vars(ChildExit(1, k) \/ WaitTimeout(1, k))
    /\ WF_vars(Tick)

SpecTermination == InitTermination /\ [][NextTermination]_vars /\ FairTermination

\* The scheduler left alone on a task and one that depends on it, with agents
\* that may fail.
InitPropagation == InitWith({Deleted(q, 3) : q \in ChainQueues}, Parallels, {{"exit"}})

NextPropagation ==
    \/ WorkerProgress(1)
    \/ \E k \in Positions : ExecStep(1, k)

\* The ticker wakes the loop, the runtime polls every future that can go on
\* and every agent exits.
FairPropagation ==
    /\ WF_vars(WorkerProgress(1))
    /\ \A k \in Positions : WF_vars(ExecStep(1, k))

SpecPropagation == InitPropagation /\ [][NextPropagation]_vars /\ FairPropagation

\* Queues with a task that can never become ready: its dependency resolves to
\* no task, or lies on a dependency cycle.
BlockedQueues ==
    { (1 :> NewTask(1, "codex", 50, <<>>) @@
       3 :> NewTask(3, "claude", 50, <<2>>)),
      (1 :> NewTask(1, "codex", 50, <<2>>) @@
       2 :> NewTask(2, "claude", 50, <<1>>) @@
       3 :> NewTask(3, "claude", 80, <<>>)) }

\* The scheduler started without --wait, on such a queue or on one whose tasks
\* can all run, and never stopped or interrupted, with agents that may fail
\* and enqueues.
InitBlocked == InitWith(BlockedQueues \cup DrainQueues, Parallels, {{"exit"}})

NextBlocked ==
    \/ WorkerProgress(1)
    \/ \E k \in Positions : ExecStep(1, k)
    \/ \E id \in TaskIds : Enqueue(id)

SpecBlocked == InitBlocked /\ [][NextBlocked]_vars

\* A worker process that is started, returns and is started again, on a queue
\* of one task, with a stop request made at any moment.
InitMarker == InitWith({Deleted(Deleted(q, 3), 2) : q \in InitialQueues}, {1}, {{}})

NextMarker ==
    \/ WorkerStep(1)
    \/ \E k \in Positions : ExecStep(1, k)
    \/ RequestStop
    \/ StopWrite
    \/ StopPoll

SpecMarker == InitMarker /\ [][NextMarker]_vars

\* The scheduler with an operator who deletes tasks, which then can be
\* enqueued again.
InitDeletion == InitWith(InitialQueues, {1}, {{"exit"}})

NextDeletion ==
    \/ WorkerStep(1)
    \/ \E k \in Positions : ExecStep(1, k)
    \/ \E id \in TaskIds : OperatorDelete(id)
    \/ \E id \in TaskIds : Enqueue(id)

SpecDeletion == InitDeletion /\ [][NextDeletion]_vars

\* ------------------------------------------------------- enqueue paths

\* A range test every u8 passes.
priority_is_u8(p) == p \in 0..255

\* (1..=100).contains(&priority).
priority_in_range(p) == p \in 1..100

\* Task::new_id: six hexadecimal digits of a random UUID, any id.
new_id == TaskIds

\* The priorities (u8) the command line and a task file ask for.
RequestedPriorities == {0, 1, 100, 101}

\* task_add_runner without --file: a priority out of range is an error,
\* otherwise the new task is saved under a drawn id.
AddRunner(priority) ==
    /\ ops < MaxOps
    /\ ops' = ops + 1
    /\ IF priority_in_range(priority)
       THEN \E id \in new_id : tasks' = Saved(tasks, NewTask(id, "codex", priority, <<>>))
       ELSE tasks' = tasks
    /\ UNCHANGED <<execs, next_exec, lock, stop, parallel, wpc, wexit, empty_polls,
                   joinset, starts, faults, wait, req, storage, logging>>

\* The task files: one or two entries, each with its own id and priority.
TaskFileEntries == [id : {1, 2}, priority : RequestedPriorities]
TaskFiles == {<<e>> : e \in TaskFileEntries} \cup {<<e, f>> : e \in TaskFileEntries, f \in {g \in TaskFileEntries : g.priority = 1}}

\* The loop of task_add_from_file: priority 0 stands for 50, an entry out of
\* range ends the import with an error, the entries before it stay saved.
RECURSIVE Imported(_, _)
Imported(store, entries) ==
    IF entries = <<>> THEN store
    ELSE LET entry == Head(entries)
             prio == IF entry.priority = 0 THEN 50 ELSE entry.priority
         IN  IF ~priority_in_range(prio) THEN store
             ELSE Imported(Saved(store, NewTask(entry.id, "codex", prio, <<>>)), Tail(entries))

\* task_add_from_file.
AddFromFile(file) ==
    /\ ops < MaxOps
    /\ ops' = ops + 1
    /\ tasks' = Imported(tasks, file)
    /\ UNCHANGED <<execs, next_exec, lock, stop, parallel, wpc, wexit, empty_polls,
                   joinset, starts, faults, wait, req, storage, logging>>

\* What the priority field of the new-task dialog may hold: nothing, digits
\* (of a number that may not fit a u8), or other text.
DialogTexts ==
    {[kind |-> "empty", n |-> 0], [kind |-> "other", n |-> 0]}
        \cup {[kind |-> "digits", n |-> n] : n \in {0, 100, 101, 300}}

\* str::parse::<u8>.
parse_u8(text) == IF text.kind = "digits" /\ text.n <= 255 THEN Some(text.n) ELSE None

\* The Enter key on the priority field of the new-task dialog: an empty field
\* stands for 50, a field that is no u8 in range is an error.
NewTaskDialog(text) ==
    LET parsed == parse_u8(text)
        accepted == text.kind = "empty" \/ (IsSome(parsed) /\ priority_in_range(Unwrap(parsed)))
        priority == IF text.kind = "empty" THEN 50 ELSE Unwrap(parsed)
    IN  /\ ops < MaxOps
        /\ ops' = ops + 1
        /\ IF accepted
           THEN \E id \in new_id : tasks' = Saved(tasks, NewTask(id, "codex", priority, <<>>))
           ELSE tasks' = tasks
        /\ UNCHANGED <<execs, next_exec, lock, stop, parallel, wpc, wexit, empty_polls,
                       joinset, starts, faults, wait, req, storage, logging>>

\* One task in the queue, a worker, and the three enqueue paths.
InitEnqueue == InitWith({(1 :> NewTask(1, "codex", 50, <<>>))}, {1}, {{}})

NextEnqueue ==
    \/ WorkerStep(1)
    \/ \E k \in Positions : ExecStep(1, k)
    \/ \E priority \in RequestedPriorities : AddRunner(priority)
    \/ \E file \in TaskFiles : AddFromFile(file)
    \/ \E text \in DialogTexts : NewTaskDialog(text)

SpecEnqueue == InitEnqueue /\ [][NextEnqueue]_vars

\* The scheduler with two tasks in a row and an id generator that may repeat
\* itself.
InitLifecycle == InitWith({Deleted(q, 3) : q \in InitialQueues}, Parallels, {{"collision"}})

NextLifecycle ==
    \/ WorkerStep(1)
    \/ \E k \in Positions : ExecStep(1, k)

SpecLifecycle == InitLifecycle /\ [][NextLifecycle]_vars

\* --------------------------------------------------- TaskStorage on files

\* The clients of one queue directory (the worker's attempts, the operator).
Clients == {1, 2}

\* Task ids, as sequences of tokens: "x", "y", "z" and "task-x".
SavedIds == {<<"x">>, <<"y">>, <<"z">>}
CallIds == SavedIds \cup {<<"task-", "x">>}

\* str::cmp on ids: bytewise, 't' < 'x' < 'y' < 'z'.
TokenRank == ("task-" :> 1) @@ ("x" :> 2) @@ ("y" :> 3) @@ ("z" :> 4)

RECURSIVE StrLess(_, _)
StrLess(a, b) ==
    IF b = <<>> THEN FALSE
    ELSE IF a = <<>> THEN TRUE
    ELSE IF Head(a) = Head(b) THEN StrLess(Tail(a), Tail(b))
    ELSE TokenRank[Head(a)] < TokenRank[Head(b)]

\* validate_task_id: not empty, no path separator, no "..".
validate_task_id(id) == id # <<>> /\ \A i \in DOMAIN id : id[i] \notin {"/", "\\", ".."}

\* TaskStorage::task_path: task-<id>.json.
task_path(id) == <<"task-">> \o id \o <<".json">>

\* The legacy name load and delete also use: <id>.json.
legacy_path(id) == id \o <<".json">>

\* Path::extension: what follows the last dot of the file name.
extension(path) == path[Len(path)]

\* path.with_extension("json.tmp"): the extension replaced.
with_extension(path) == SubSeq(path, 1, Len(path) - 1) \o <<".json", ".tmp">>

\* The fields of a Task the file level tells apart.
StoredTask(id, priority, status) == [id |-> id, priority |-> priority, status |-> status]

\* serde_json::to_vec_pretty: the bytes of a record, in the two pieces a
\* write may put down separately: the leading fields, then the rest.
to_vec_pretty(task) ==
    << [part |-> 1, id |-> task.id, priority |-> task.priority, status |-> ""],
       [part |-> 2, id |-> <<>>, priority |-> 0, status |-> task.status] >>

\* The bytes of a file range nothing was written to.
Hole == [part |-> 0, id |-> <<>>, priority |-> 0, status |-> ""]

\* serde_json::from_slice: the record, when the bytes are a whole document.
from_slice(data) ==
    IF Len(data) = 2 /\ data[1].part = 1 /\ data[2].part = 2
    THEN Some(StoredTask(data[1].id, data[1].priority, data[2].status))
    ELSE None

\* write(2) of one piece at an offset of a file.
Put(data, off, piece) ==
    [i \in 1..(IF Len(data) > off THEN Len(data) ELSE off) |->
        IF i = off THEN piece ELSE IF i <= Len(data) THEN data[i] ELSE Hole]

\* A client's call: the operation, its position, its arguments, the open
\* file (by its present name, None once the file was replaced or removed)
\* with the write offset, the directory entries still to read and the records
\* read so far, the result, the calls made so far, and the call made before
\* this one (operation and id).
NoCall ==
    [op |-> "none", pc |-> "idle", id |-> <<>>, task |-> None, fd |-> None, off |-> 0,
     path |-> <<>>, pending |-> {}, acc |-> <<>>, result |-> "none", value |-> <<>>, n |-> 0,
     last |-> <<"none", <<>>>>]

CanCall(c) ==
    /\ c \in DOMAIN calls
    /\ calls[c].pc \in {"idle", "returned"}
    /\ calls[c].n < MaxCalls

Begin(c, op, id) ==
    [NoCall EXCEPT !.op = op, !.id = id, !.n = calls[c].n + 1,
                   !.last = <<calls[c].op, calls[c].id>>]

Return(call, result, value) ==
    [call EXCEPT !.pc = "returned", !.fd = None, !.result = result, !.value = value]

\* TaskStorage::save up to File::create of std::fs::write: the temp file is
\* created, or truncated when it exists.
SaveCreate(c, task) ==
    LET tmp == with_extension(task_path(task.id)) IN
    /\ CanCall(c)
    /\ validate_task_id(task.id)
    /\ dir' = [p \in DOMAIN dir \cup {tmp} |-> IF p = tmp THEN <<>> ELSE dir[p]]
    /\ calls' = [calls EXCEPT ![c] = [Begin(c, "save", task.id) EXCEPT
                     !.pc = "write", !.task = Some(task), !.fd = Some(tmp), !.off = 1]]
    /\ UNCHANGED <<tasks, execs, next_exec, lock, stop, parallel, wpc, wexit, empty_polls,
                   joinset, starts, ops, faults, wait, req, logging>>

\* write_all of std::fs::write, one piece at a time, into the file the
\* descriptor refers to, whatever its name is by now.
SaveWrite(c) ==
    LET call == calls[c]
        piece == to_vec_pretty(Unwrap(call.task))[call.off]
    IN  /\ c \in DOMAIN calls
        /\ call.pc = "write"
        /\ dir' = IF IsSome(call.fd)
                  THEN [dir EXCEPT ![Unwrap(call.fd)] = Put(@, call.off, piece)]
                  ELSE dir
        /\ calls' = [calls EXCEPT ![c] =
                        IF call.off = Len(to_vec_pretty(Unwrap(call.task)))
                        THEN [call EXCEPT !.pc = "rename", !.fd = None]
                        ELSE [call EXCEPT !.off = call.off + 1]]
        /\ UNCHANGED <<tasks, execs, next_exec, lock, stop, parallel, wpc, wexit, empty_polls,
                       joinset, starts, ops, faults, wait, req, logging>>

\* std::fs::rename(tmp, path), and save returns.
SaveRename(c) ==
    LET call == calls[c]
        path == task_path(call.id)
        tmp == with_extension(path)
        moved(fd) == IF fd = Some(tmp) THEN Some(path) ELSE IF fd = Some(path) THEN None ELSE fd
    IN  /\ c \in DOMAIN calls
        /\ call.pc = "rename"
        /\ IF tmp \in DOMAIN dir
           THEN /\ dir' = [p \in (DOMAIN dir \ {tmp}) \cup {path} |->
                              IF p = path THEN dir[tmp] ELSE dir[p]]
                /\ calls' = [d \in DOMAIN calls |->
                                IF d = c THEN Return(call, "ok", <<>>)
                                ELSE [calls[d] EXCEPT !.fd = moved(@)]]
           ELSE /\ dir' = dir
                /\ calls' = [calls EXCEPT ![c] = Return(call, "rename error", <<>>)]
        /\ UNCHANGED <<tasks, execs, next_exec, lock, stop, parallel, wpc, wexit, empty_polls,
                       joinset, starts, ops, faults, wait, req, logging>>

\* TaskStorage::load up to the choice of the file: task-<id>.json when it
\* exists, <id>.json otherwise.
LoadExists(c, id) ==
    /\ CanCall(c)
    /\ validate_task_id(id)
    /\ calls' = [calls EXCEPT ![c] = [Begin(c, "load", id) EXCEPT !.pc = "read",
                     !.path = IF task_path(id) \in DOMAIN dir THEN task_path(id)
                              ELSE legacy_path(id)]]
    /\ UNCHANGED <<tasks, execs, next_exec, lock, stop, parallel, wpc, wexit, empty_polls,
                   joinset, starts, ops, faults, wait, req, dir, logging>>

\* std::fs::read and serde_json::from_slice of load, and load returns.
LoadRead(c) ==
    LET call == calls[c] IN
    /\ c \in DOMAIN calls
    /\ call.pc = "read"
    /\ calls' = [calls EXCEPT ![c] =
                    IF call.path \notin DOMAIN dir THEN Return(call, "read error", <<>>)
                    ELSE IF IsSome(from_slice(dir[call.path]))
                         THEN Return(call, "ok", from_slice(dir[call.path]))
                         ELSE Return(call, "parse error", <<>>)]
    /\ UNCHANGED <<tasks, execs, next_exec, lock, stop, parallel, wpc, wexit, empty_polls,
                   joinset, starts, ops, faults, wait, req, dir, logging>>

\* A delete that removes task-<id>.json alone.
DeleteRecordOnly(c, id) ==
    LET gone == {task_path(id)} IN
    /\ CanCall(c)
    /\ validate_task_id(id)
    /\ dir' = [p \in DOMAIN dir \ gone |-> dir[p]]
    /\ calls' = [d \in DOMAIN calls |->
                    IF d = c THEN Return(Begin(c, "delete", id), "ok", <<>>)
                    ELSE [calls[d] EXCEPT !.fd = IF @ # None /\ Unwrap(@) \in gone THEN None ELSE @]]
    /\ UNCHANGED <<tasks, execs, next_exec, lock, stop, parallel, wpc, wexit, empty_polls,
                   joinset, starts, ops, faults, wait, req, logging>>

\* TaskStorage::delete: both names are removed, a missing file is ignored.
Delete(c, id) ==
    LET gone == {task_path(id), legacy_path(id)} IN
    /\ CanCall(c)
    /\ validate_task_id(id)
    /\ dir' = [p \in DOMAIN dir \ gone |-> dir[p]]
    /\ calls' = [d \in DOMAIN calls |->
                    IF d = c THEN Return(Begin(c, "delete", id), "ok", <<>>)
                    ELSE [calls[d] EXCEPT !.fd = IF @ # None /\ Unwrap(@) \in gone THEN None ELSE @]]
    /\ UNCHANGED <<tasks, execs, next_exec, lock, stop, parallel, wpc, wexit, empty_polls,
                   joinset, starts, ops, faults, wait, req, logging>>

\* TaskStorage::list up to read_dir: the entries whose extension is json.
ListDir(c) ==
    /\ CanCall(c)
    /\ calls' = [calls EXCEPT ![c] = [Begin(c, "list", <<>>) EXCEPT !.pc = "entries",
                     !.pending = {p \in DOMAIN dir : extension(p) = ".json"}]]
    /\ UNCHANGED <<tasks, execs, next_exec, lock, stop, parallel, wpc, wexit, empty_polls,
                   joinset, starts, ops, faults, wait, req, dir, logging>>

\* One turn of list's loop, the entries in the order the directory gives
\* them: a file that cannot be read or parsed is skipped.
ListRead(c, p) ==
    LET call == calls[c] IN
    /\ c \in DOMAIN calls
    /\ call.pc = "entries"
    /\ p \in call.pending
    /\ calls' = [calls EXCEPT ![c] =
                    [call EXCEPT !.pending = @ \ {p},
                                 !.acc = IF p \in DOMAIN dir /\ IsSome(from_slice(dir[p]))
                                         THEN Append(@, Unwrap(from_slice(dir[p])))
                                         ELSE @]]
    /\ UNCHANGED <<tasks, execs, next_exec, lock, stop, parallel, wpc, wexit, empty_polls,
                   joinset, starts, ops, faults, wait, req, dir, logging>>

\* A comparison that looks at the priority alone.
cmp_priority_only(a, b) == b.priority < a.priority

\* The comparison of list's sort_by: priority descending, then id ascending.
cmp_priority_then_id(a, b) ==
    \/ b.priority < a.priority
    \/ b.priority = a.priority /\ StrLess(a.id, b.id)

\* slice::sort_by, a stable sort.
RECURSIVE InsertTask(_, _)
InsertTask(sorted, task) ==
    IF sorted = <<>> THEN <<task>>
    ELSE IF cmp_priority_then_id(task, Head(sorted))
         THEN <<task>> \o sorted
         ELSE <<Head(sorted)>> \o InsertTask(Tail(sorted), task)

RECURSIVE sort_by(_)
sort_by(list) ==
    IF list = <<>> THEN <<>>
    ELSE InsertTask(sort_by(SubSeq(list, 1, Len(list) - 1)), list[Len(list)])

\* The end of list's loop: the records are sorted and returned.
ListReturn(c) ==
    LET call == calls[c] IN
    /\ c \in DOMAIN calls
    /\ call.pc = "entries"
    /\ call.pending = {}
    /\ calls' = [calls EXCEPT ![c] = Return(call, "ok", sort_by(call.acc))]
    /\ UNCHANGED <<tasks, execs, next_exec, lock, stop, parallel, wpc, wexit, empty_polls,
                   joinset, starts, ops, faults, wait, req, dir, logging>>

\* A queue directory with its clients, no worker running.
InitFiles(dirs, clients) ==
    /\ dir \in dirs
    /\ calls = [c \in clients |-> NoCall]
    /\ output = <<>>
    /\ log = <<>>
    /\ tasks = <<>>
    /\ parallel = 1
    /\ faults = {}
    /\ wait = FALSE
    /\ req = NoRequest
    /\ execs = <<>>
    /\ next_exec = 1
    /\ lock = None
    /\ stop = FALSE
    /\ wpc = [w \in Workers |-> "off"]
    /\ wexit = [w \in Workers |-> "none"]
    /\ empty_polls = [w \in Workers |-> 0]
    /\ joinset = [w \in Workers |-> <<>>]
    /\ starts = 0
    /\ ops = 0

\* The record of task x the two writers start from, and the records they save
\* (the scheduler's Running, the operator's re-prioritised Pending).
OldRecord == StoredTask(<<"x">>, 50, "Pending")
NewRecords == {StoredTask(<<"x">>, 50, "Running"), StoredTask(<<"x">>, 80, "Pending")}

\* Two clients saving, loading and listing the record of one task.
InitStorage ==
    InitFiles({ (task_path(<<"x">>) :> to_vec_pretty(OldRecord)) }, Clients)

NextStorage ==
    \E c \in Clients :
        \/ \E task \in NewRecords : SaveCreate(c, task)
        \/ SaveWrite(c)
        \/ SaveRename(c)
        \/ LoadExists(c, <<"x">>)
        \/ LoadRead(c)
        \/ ListDir(c)
        \/ \E p \in DOMAIN dir : ListRead(c, p)
        \/ ListReturn(c)

SpecStorage == InitStorage /\ [][NextStorage]_vars

\* What a record file of a directory at rest may hold: nothing, a whole
\* record, or the leading piece only.
FileStates(id) ==
    {<<>>} \cup {to_vec_pretty(StoredTask(id, p, "Pending")) : p \in {50, 80}}
           \cup {<<to_vec_pretty(StoredTask(id, 50, "Pending"))[1]>>}

\* The directories at rest: per saved id no file, a record or a damaged
\* record, and possibly the temp file an interrupted save of x left behind.
Directories ==
    { [p \in {task_path(id) : id \in {i \in SavedIds : f[i] # <<>>}}
             \cup (IF left THEN {with_extension(task_path(<<"x">>))} ELSE {}) |->
          IF extension(p) = ".tmp" THEN to_vec_pretty(StoredTask(<<"x">>, 80, "Running"))
          ELSE f[CHOOSE i \in SavedIds : task_path(i) = p]]
      : f \in {g \in [SavedIds -> UNION {FileStates(i) : i \in SavedIds}] :
                  \A i \in SavedIds : g[i] \in FileStates(i)},
        left \in BOOLEAN }

\* One client working on a directory: saves, loads, deletes and listings.
InitFiling == InitFiles(Directories, {1})

NextFiling ==
    \/ \E task \in {StoredTask(<<"x">>, 80, "Running")} : SaveCreate(1, task)
    \/ SaveWrite(1)
    \/ SaveRename(1)
    \/ \E id \in CallIds : LoadExists(1, id)
    \/ LoadRead(1)
    \/ \E id \in CallIds : Delete(1, id)
    \/ ListDir(1)
    \/ \E p \in DOMAIN dir : ListRead(1, p)
    \/ ListReturn(1)

SpecFiling == InitFiling /\ [][NextFiling]_vars

\* ------------------------------------------------------- the execution log

\* stdout and stderr of the agent.
Streams == {"stdout", "stderr"}

\* What a line of output may be: a JSON object, JSON of another shape, text
\* that is no JSON, bytes that are no UTF-8, or nothing but white space.
LineKinds == {"object", "array", "text", "invalid", "blank"}

RECURSIVE SeqsUpTo(_, _)
SeqsUpTo(S, n) ==
    IF n = 0 THEN {<<>>}
    ELSE SeqsUpTo(S, n - 1) \cup {Append(q, x) : q \in {r \in SeqsUpTo(S, n - 1) : Len(r) = n - 1}, x \in S}

\* The execution the agent runs for.
LoggedMeta == NewMeta(1, NewTask(1, "codex", 50, <<>>))

\* serde_json::from_str(line), with the fallback of build_log_entry: a line
\* that is no JSON becomes the object {"type": "text", "text": line}.
Payload(stream, no, kind) ==
    IF kind \in {"object", "array"}
    THEN [shape |-> kind, of |-> <<stream, no>>]
    ELSE [shape |-> "object", of |-> <<stream, no>>]

\* build_log_entry.
build_log_entry(execution_id, task_id, stream, no, kind) ==
    [execution_id |-> Some(execution_id), task_id |-> Some(task_id), stream |-> Some(stream),
     payload |-> Some(Payload(stream, no, kind))]

\* The text "{}" written when serde_json::to_string fails.
EmptyObject == [execution_id |-> None, task_id |-> None, stream |-> None, payload |-> None]

\* serde_json::to_string(&entry).unwrap_or_else(|_| "{}"): a payload flattened
\* into the entry must be a map, any other shape is an error.
to_string(entry) ==
    IF Unwrap(entry.payload).shape = "object" THEN entry ELSE EmptyObject

\* Lines::next_line: the line, or an error for bytes that are no UTF-8.
NextLine(kind) == kind

\* One turn of the loop of a reader task of run_codex / run_claude: the loop
\* ends on end of file and on an error of next_line, an empty line is skipped,
\* any other line is written as one entry.
ReadLine(stream) ==
    LET out == output[stream]
        line == NextLine(out.lines[out.pos])
    IN  /\ stream \in DOMAIN output
        /\ ~out.done
        /\ IF out.pos > Len(out.lines)
           THEN /\ output' = [output EXCEPT ![stream].done = TRUE]
                /\ log' = log
           ELSE IF line = "invalid"
           THEN /\ output' = [output EXCEPT ![stream].done = TRUE]
                /\ log' = log
           ELSE /\ output' = [output EXCEPT ![stream].pos = out.pos + 1]
                /\ log' = IF line = "blank" THEN log
                          ELSE Append(log, to_string(build_log_entry(LoggedMeta.execution_id,
                                               LoggedMeta.task_id, stream, out.pos, line)))
        /\ UNCHANGED <<tasks, execs, next_exec, lock, stop, parallel, wpc, wexit, empty_polls,
                       joinset, starts, ops, faults, wait, req, storage>>

\* An agent that has written its lines, and the two reader tasks.
InitLogging ==
    /\ output \in [Streams -> {[lines |-> l, pos |-> 1, done |-> FALSE] :
                                  l \in SeqsUpTo(LineKinds, MaxLines)}]
    /\ log = <<>>
    /\ dir = <<>>
    /\ calls = <<>>
    /\ tasks = <<>>
    /\ parallel = 1
    /\ faults = {}
    /\ wait = FALSE
    /\ req = NoRequest
    /\ execs = <<>>
    /\ next_exec = 1
    /\ lock = None
    /\ stop = FALSE
    /\ wpc = [w \in Workers |-> "off"]
    /\ wexit = [w \in Workers |-> "none"]
    /\ empty_polls = [w \in Workers |-> 0]
    /\ joinset = [w \in Workers |-> <<>>]
    /\ starts = 0
    /\ ops = 0

NextLogging == \E stream \in Streams : ReadLine(stream)

SpecLogging == InitLogging /\ [][NextLogging]_vars

\* ------------------------------------------------------------ properties

\* Positions of w's JoinSet whose execute_task has not returned.
InFlight(w) == {k \in DOMAIN joinset[w] : ~IsFinished(joinset[w][k])}

\* A dependency list read as ready_tasks is specified: every dependency
\* Completed, or a Failed one preceded only by Completed ones.
DepsAllow(store, deps) ==
    \/ \A i \in DOMAIN deps : deps[i] \in DOMAIN store /\ store[deps[i]].status = "Completed"
    \/ \E i \in DOMAIN deps :
           /\ deps[i] \in DOMAIN store /\ store[deps[i]].status = "Failed"
           /\ \A j \in 1..(i - 1) :
                  deps[j] \in DOMAIN store /\ store[deps[j]].status = "Completed"

ReadySet(store) ==
    {id \in DOMAIN store : IsPending(store[id]) /\ DepsAllow(store, store[id].depends_on)}

\* The step is a scheduling pass of w that launches: the JoinSet becomes its
\* unfinished instances followed by new ones.
LaunchStep(w) ==
    LET n == Len(Unfinished(joinset[w])) IN
    /\ wpc[w] \in {"recovered", "loop"}
    /\ tasks' = tasks
    /\ Len(joinset'[w]) > n
    /\ SubSeq(joinset'[w], 1, n) = Unfinished(joinset[w])
    /\ \A k \in (n + 1)..Len(joinset'[w]) : joinset'[w][k] = NewInstance(joinset'[w][k].tid)

\* The ids a launching pass of w launched, in launch order.
LaunchedIds(w) ==
    LET n == Len(Unfinished(joinset[w])) IN
    [k \in 1..(Len(joinset'[w]) - n) |-> joinset'[w][n + k].tid]

\* The step is the first poll of an execute_task of w for task id.
BeginStep(w, id) ==
    \E k \in DOMAIN joinset[w] :
        /\ joinset[w][k].tid = id
        /\ joinset[w][k].pc = "spawned"
        /\ k \in DOMAIN joinset'[w]
        /\ joinset'[w][k].pc # "spawned"

\* C1: in every reachable state the number of executions a worker has launched
\* and not yet reaped is at most the configured parallel limit.
C1_CapacityInvariant == \A w \in Workers : Len(joinset[w]) <= parallel

\* The limit is reached with two executions in flight while a ready task waits.
C1_Witness ==
    /\ parallel = 2
    /\ Cardinality(InFlight(1)) = 2
    /\ ReadySet(tasks) # {}
    /\ wpc[1] = "loop"

\* C2: the step by which execute_task makes B Running never leaves B Running
\* while a task A of B.depends_on is in a status other than Completed or
\* Failed (the claim's invariant, at the moment B becomes Running).
C2_DependencyOrdering ==
    [][\A w \in Workers : \A b \in DOMAIN tasks :
          BeginStep(w, b) /\ b \in DOMAIN tasks' /\ tasks'[b].status = "Running"
              => \A i \in DOMAIN tasks'[b].depends_on :
                     LET a == tasks'[b].depends_on[i] IN
                     a \in DOMAIN tasks' => tasks'[a].status \in {"Completed", "Failed"}]_vars

\* The first Failed dependency of a dependency list, in list order.
IsFirstFailed(store, deps, a) ==
    \E i \in DOMAIN deps :
        /\ deps[i] = a
        /\ a \in DOMAIN store /\ store[a].status = "Failed"
        /\ \A j \in 1..(i - 1) : ~(deps[j] \in DOMAIN store /\ store[deps[j]].status = "Failed")

\* B fails fast on this step: Pending/Waiting to Failed, never Running, no
\* execution record, no agent process, last_error naming dependency a.
FailsFast(w, b, a) ==
    /\ b \in DOMAIN tasks'
    /\ tasks'[b].status = "Failed"
    /\ tasks'[b].last_error = Some(DependencyFailed(a))
    /\ tasks'[b].started_at = tasks[b].started_at
    /\ tasks'[b].session_id = tasks[b].session_id
    /\ execs' = execs
    /\ next_exec' = next_exec
    /\ \A k \in DOMAIN joinset[w] :
           joinset[w][k].tid = b /\ joinset[w][k].pc = "spawned"
           /\ joinset'[w][k].pc # "spawned"
               => IsFinished(joinset'[w][k]) /\ joinset'[w][k].child = "none"

\* C3 as stated: when B is launched with a Failed dependency A, B fails fast
\* with last_error containing A's id, for every Failed A in B.depends_on.
C3_FailurePropagation ==
    [][\A w \in Workers : \A b \in DOMAIN tasks :
          BeginStep(w, b) /\ IsPending(tasks[b])
              => \A i \in DOMAIN tasks[b].depends_on :
                     LET a == tasks[b].depends_on[i] IN
                     a \in DOMAIN tasks /\ tasks[a].status = "Failed" => FailsFast(w, b, a)]_vars

\* C3 amended: when B is launched with a Failed dependency, B fails fast with
\* last_error containing the id of the first Failed dependency in depends_on.
C3_FailurePropagationFirst ==
    [][\A w \in Workers : \A b \in DOMAIN tasks :
          BeginStep(w, b) /\ IsPending(tasks[b])
              => \A i \in DOMAIN tasks[b].depends_on :
                     LET a == tasks[b].depends_on[i] IN
                     IsFirstFailed(tasks, tasks[b].depends_on, a) => FailsFast(w, b, a)]_vars

\* Task 3 failed fast on its first dependency while its second one is Failed too.
C3_Witness ==
    /\ {1, 2, 3} \subseteq DOMAIN tasks
    /\ tasks[3].depends_on = <<1, 2>>
    /\ tasks[1].status = "Failed" /\ tasks[2].status = "Failed"
    /\ tasks[3].status = "Failed"
    /\ tasks[3].last_error = Some(DependencyFailed(1))
    /\ ~tasks[3].started_at
    /\ tasks[3].session_id = None

\* C4: a scheduling pass launches the first min(capacity, |R|) tasks of the
\* ready set R in the order priority descending, id ascending: it launches in
\* that order, and no ready task left unlaunched precedes a launched one.
C4_PriorityOrdering ==
    [][\A w \in Workers :
          LaunchStep(w) =>
              LET L == LaunchedIds(w)
                  R == ReadySet(tasks)
                  c == parallel - Len(Unfinished(joinset[w]))
              IN  /\ Len(L) = Min(c, Cardinality(R))
                  /\ \A i \in DOMAIN L : L[i] \in R
                  /\ \A i, j \in DOMAIN L : i < j => Before(tasks[L[i]], tasks[L[j]])
                  /\ \A i \in DOMAIN L : \A r \in R :
                         (\A j \in DOMAIN L : L[j] # r) => Before(tasks[L[i]], tasks[r])]_vars

\* With capacity 1 and three ready tasks, the one of priority 80 was launched
\* and the two of priority 50 wait.
C4_Witness ==
    /\ parallel = 1
    /\ Len(joinset[1]) = 1
    /\ joinset[1][1] = NewInstance(2)
    /\ ReadySet(tasks) = {1, 2, 3}
    /\ tasks[2].priority > tasks[1].priority
    /\ tasks[1].priority = tasks[3].priority

\* A worker process past lock acquisition: in crash recovery, the loop or the drain.
Active(w) == wpc[w] \in {"locked", "recovered", "loop", "drain"}

\* C5: at most one worker process is past lock acquisition at any time.
C5_SingletonWorker == Cardinality({w \in Workers : Active(w)}) <= 1

\* C6: a start of run_worker that finds worker.lock present fails with "worker
\* already running" and goes no further: no process moves on to recovery or a
\* pass, and the lock file, the stop marker and the task records stay as they are.
C6_AlreadyRunning ==
    [][starts' = starts + 1 /\ IsSome(lock)
          => /\ \E w \in Workers : wpc[w] = "off" /\ wexit'[w] = "already running"
             /\ wpc' = wpc
             /\ lock' = lock
             /\ stop' = stop
             /\ tasks' = tasks
             /\ joinset' = joinset]_vars

\* The second process was refused while the first holds the lock, runs an
\* execution and has a stop request pending.
C6_Witness ==
    /\ wexit[2] = "already running"
    /\ lock = Some(1)
    /\ stop
    /\ wpc[1] = "loop"
    /\ InFlight(1) # {}

C8_TimeoutEnforcement ==
    \A w \in Workers : \A k \in DOMAIN joinset[w] :
        joinset[w][k].child = "alive" => joinset[w][k].age <= Timeout

\* C9: a worker never has two attempts of the same task in flight.
C9_OneAttemptInFlight ==
    \A w \in Workers : \A i, j \in InFlight(w) :
        joinset[w][i].tid = joinset[w][j].tid => i = j

\* C10: Running is written only to a task whose stored status is Pending or
\* Waiting, and a task's status changes only along Pending/Waiting -> Running,
\* Running -> Completed or Failed, Pending/Waiting -> Failed.
C10_TaskStateMachine ==
    [][\A id \in DOMAIN tasks \cap DOMAIN tasks' :
          /\ tasks'[id] # tasks[id] /\ tasks'[id].status = "Running"
                 => IsPending(tasks[id])
          /\ tasks'[id].status # tasks[id].status
                 => <<tasks[id].status, tasks'[id].status>> \in
                        {<<"Pending", "Running">>, <<"Waiting", "Running">>,
                         <<"Running", "Completed">>, <<"Running", "Failed">>,
                         <<"Pending", "Failed">>, <<"Waiting", "Failed">>}]_vars

\* The statuses an attempt ends in.
Terminal == {"Completed", "Failed"}

\* C11: once the loop has seen the stop marker or an interrupt, run_worker
\* launches nothing more and cancels nothing: its executions stay in the JoinSet
\* and only move on by themselves; and it returns Ok only when each of them has
\* finished with its task and its execution record Completed or Failed.
C11_GracefulShutdown ==
    [][\A w \in Workers :
          /\ wpc'[w] = "drain"
                 => /\ DOMAIN joinset'[w] = DOMAIN joinset[w]
                    /\ \A k \in DOMAIN joinset[w] :
                           /\ joinset'[w][k].tid = joinset[w][k].tid
                           /\ IsFinished(joinset[w][k]) => joinset'[w][k] = joinset[w][k]
                           /\ joinset'[w][k].child # "killed"
          /\ wpc[w] = "drain" /\ wpc'[w] = "off" /\ wexit'[w] = "ok"
                 => \A k \in DOMAIN joinset[w] :
                        LET inst == joinset[w][k] IN
                        /\ IsFinished(inst)
                        /\ inst.tid \in DOMAIN tasks /\ tasks[inst.tid].status \in Terminal
                        /\ IsSome(inst.meta)
                               => execs[Unwrap(inst.meta).execution_id].status \in Terminal]_vars

\* The worker returned after a stop request: an execution it had in flight
\* ended Completed, and a ready task was left unlaunched.
C11_Witness ==
    /\ wexit[1] = "ok"
    /\ req.pc # "none"
    /\ \E e \in DOMAIN execs : execs[e].status = "Completed"
    /\ ReadySet(tasks) # {}

PollsAsSpecified ==
    /\ req.pc = "polling" /\ req'.pc = "returned"
           => req'.result = (~IsSome(lock) /\ req.slept < req.timeout)
    /\ req.pc = "polling" /\ req'.pc = "polling" /\ req' # req
           => IsSome(lock) /\ req.slept < req.timeout /\ req'.slept = req.slept + 1

\* C18 as stated: every call of request_stop writes the stop marker and then
\* polls, whether or not a worker lock exists when it begins, and reports success
\* exactly when the lock file is absent at some poll before the timeout.
C18_StopRequest ==
    [][/\ ops' = ops + 1 => req'.pc = "loaded"
       /\ req.pc = "loaded" /\ req' # req
              => stop' = TRUE /\ req'.pc = "polling" /\ req'.slept = 0
       /\ PollsAsSpecified]_vars

\* C18 amended: a call that finds a worker lock writes the stop marker and then
\* polls, reporting success exactly when the lock file is absent at some poll
\* before the timeout; a call that finds no worker lock reports failure at once
\* and writes no stop marker.
C18_StopRequestWithLock ==
    [][/\ ops' = ops + 1
           => /\ stop' = stop
              /\ IF IsSome(lock) THEN req'.pc = "loaded"
                                 ELSE req'.pc = "returned" /\ ~req'.result
       /\ req.pc = "loaded" /\ req' # req
              => stop' = TRUE /\ req'.pc = "polling" /\ req'.slept = 0
       /\ PollsAsSpecified]_vars

\* A stop request returned success: the worker it stopped has returned and the
\* lock file is gone.
C18_Witness ==
    /\ req.pc = "returned"
    /\ req.result
    /\ wexit[1] = "ok"
    /\ lock = None

\* An iteration of w's loop would find nothing ready, nothing Pending or
\* Waiting and no execution active.
Idle(w) ==
    /\ ReadySet(tasks) = {}
    /\ \A id \in DOMAIN tasks : ~IsPending(tasks[id])
    /\ InFlight(w) = {}

\* C15: the idle counter goes up by one on an idle iteration and back to zero
\* on any other (an iteration that launches, or that changes the counter while
\* not idle; one without capacity finds it at zero); the loop leaves on a
\* change of the counter exactly when wait is false and the counter reaches 2,
\* that is on the second consecutive idle iteration, and never when wait is true.
C15_IdleExit ==
    /\ [](\A w \in Workers :
             wpc[w] \in {"recovered", "loop"} /\ Len(Unfinished(joinset[w])) >= parallel
                 => empty_polls[w] = 0)
    /\ [][\A w \in Workers :
             wpc[w] \in {"recovered", "loop"} =>
                 /\ empty_polls'[w] # empty_polls[w] =>
                        IF Idle(w)
                        THEN /\ empty_polls'[w] = empty_polls[w] + 1
                             /\ (wpc'[w] = "drain") = (~wait /\ empty_polls'[w] >= 2)
                             /\ wpc'[w] = "drain" => empty_polls[w] = 1
                        ELSE empty_polls'[w] = 0 /\ wpc'[w] = "loop"
                 /\ LaunchStep(w) => empty_polls'[w] = 0
                 /\ ~wait /\ wpc'[w] = "loop" => empty_polls'[w] < 2]_vars

\* A worker started with wait = true is still in its loop after more than two
\* consecutive idle polls, every task it was given and one enqueued later done.
C15_Witness ==
    /\ wait
    /\ wpc[1] = "loop"
    /\ empty_polls[1] = 3
    /\ DOMAIN tasks = TaskIds
    /\ \A id \in DOMAIN tasks : tasks[id].status = "Completed"

\* C16: an operator reset leaves the task Pending with started_at, completed_at,
\* session_id and last_error cleared and its other fields as they were, changes
\* no other task, and resetting the result again changes nothing.
C16_Reset ==
    [][ops' = ops + 1 /\ DOMAIN tasks' = DOMAIN tasks
          => \E id \in DOMAIN tasks :
                 LET old == tasks[id]
                     new == tasks'[id]
                 IN  /\ \A other \in DOMAIN tasks \ {id} : tasks'[other] = tasks[other]
                     /\ new.status = "Pending"
                     /\ ~new.started_at /\ ~new.completed_at
                     /\ new.session_id = None /\ new.last_error = None
                     /\ new.id = old.id /\ new.runner = old.runner
                     /\ new.priority = old.priority /\ new.depends_on = old.depends_on
                     /\ Saved(tasks', ResetTask(new)) = tasks']_vars

\* A task that was run to its end has been reset: it is as it was enqueued,
\* and the record of its execution remains.
C16_Witness ==
    /\ ops = 1
    /\ \E e \in DOMAIN execs :
           /\ execs[e].status \in Terminal
           /\ execs[e].task_id \in DOMAIN tasks
           /\ tasks[execs[e].task_id].status = "Pending"
           /\ ~tasks[execs[e].task_id].started_at
           /\ tasks[execs[e].task_id].session_id = None

\* The positions of deps that resolve to no task of the store.
UnresolvedAt(store, deps) == {i \in DOMAIN deps : deps[i] \notin DOMAIN store}

\* C14, in the part every reading of it shares: a task whose depends_on holds
\* an id that resolves to no task is never made Running (it stays Pending or
\* Waiting, or at most fails fast on a Failed dependency).
C14_UnresolvedDependency ==
    [][\A t \in DOMAIN tasks \cap DOMAIN tasks' :
          UnresolvedAt(tasks', tasks'[t].depends_on) # {} /\ tasks[t].status # "Running"
              => tasks'[t].status # "Running"]_vars

\* C13: when an attempt ends on an error (execute_task returns an error, or
\* returns Ok with success = false), its task is Failed with a last_error, and
\* the step leaves the scheduling loop and every other attempt as they are.
C13_ErrorIsolation ==
    [][\A w \in Workers : \A k \in DOMAIN joinset[w] :
          LET old == joinset[w][k] IN
          (/\ ~IsFinished(old)
           /\ k \in DOMAIN joinset'[w]
           /\ IsFinished(joinset'[w][k])
           /\ joinset'[w][k].ret = "err" \/ ~joinset'[w][k].success)
              => /\ old.tid \in DOMAIN tasks'
                 /\ tasks'[old.tid].status = "Failed"
                 /\ IsSome(tasks'[old.tid].last_error)
                 /\ wpc' = wpc
                 /\ \A j \in DOMAIN joinset[w] \ {k} : joinset'[w][j] = joinset[w][j]]_vars

\* The whole records of task x the directory of SpecStorage ever holds.
WholeRecords == {OldRecord} \cup NewRecords

\* C12: a load or a list that runs while the same record is saved returns the
\* whole old record or a whole new one, never a damaged one and never a failure
\* to parse, with two writers of the same id included.
C12_AtomicRecords ==
    \A c \in DOMAIN calls :
        calls[c].pc = "returned" =>
            /\ calls[c].op = "load" =>
                  /\ calls[c].result = "ok"
                  /\ calls[c].value[1] \in WholeRecords
            /\ calls[c].op = "list" =>
                  /\ Len(calls[c].value) = 1
                  /\ calls[c].value[1] \in WholeRecords

\* C19: load(a) returns no record of another id, delete(a) leaves the record
\* files of the other ids as they are, and load of an id that was never saved
\* returns an error.
C19_NoAliasing ==
    [][\A c \in DOMAIN calls :
          /\ (calls[c].pc = "read" /\ calls'[c].pc = "returned" /\ calls'[c].result = "ok")
                => /\ calls'[c].value[1].id = calls[c].id
                   /\ calls[c].id \in SavedIds
          /\ (calls'[c].op = "delete" /\ calls'[c].n = calls[c].n + 1)
                => \A b \in CallIds \ {calls'[c].id} :
                      task_path(b) \in DOMAIN dir
                          => /\ task_path(b) \in DOMAIN dir'
                             /\ dir'[task_path(b)] = dir[task_path(b)]]_vars

\* The record files of the directory.
RecordFiles == {p \in DOMAIN dir : \E id \in CallIds : p = task_path(id)}

\* C20: list() returns every record that parses, each once, by priority
\* descending and then id ascending, and skips the records that do not parse.
C20_List ==
    \A c \in DOMAIN calls :
        (calls[c].pc = "returned" /\ calls[c].op = "list") =>
            LET v == calls[c].value IN
            /\ calls[c].result = "ok"
            /\ \A p \in RecordFiles :
                  IsSome(from_slice(dir[p]))
                      => Cardinality({i \in DOMAIN v : v[i] = Unwrap(from_slice(dir[p]))}) = 1
            /\ \A i \in DOMAIN v : \E p \in RecordFiles : from_slice(dir[p]) = Some(v[i])
            /\ \A i, j \in DOMAIN v :
                  i < j => \/ v[i].priority > v[j].priority
                           \/ v[i].priority = v[j].priority /\ StrLess(v[i].id, v[j].id)

\* A listing of two records of one priority, from a directory that also holds
\* a record that does not parse and a temp file.
C20_Witness ==
    \E c \in DOMAIN calls :
        /\ calls[c].pc = "returned" /\ calls[c].op = "list"
        /\ Len(calls[c].value) = 2
        /\ calls[c].value[1].priority = calls[c].value[2].priority
        /\ \E p \in RecordFiles : ~IsSome(from_slice(dir[p]))
        /\ \E p \in DOMAIN dir : extension(p) = ".tmp"

\* C21: delete(id) succeeds whether or not a record exists; the load(id) that
\* follows it fails, the list() that follows it holds no task of that id, and
\* the delete(id) that follows it succeeds and leaves the directory as it is.
C21_DeleteIdempotent ==
    [][\A c \in DOMAIN calls :
          /\ (calls'[c].op = "delete" /\ calls'[c].n = calls[c].n + 1)
                => /\ calls'[c].pc = "returned" /\ calls'[c].result = "ok"
                   /\ calls'[c].last = <<"delete", calls'[c].id>> => dir' = dir
          /\ (calls[c].pc = "read" /\ calls'[c].pc = "returned"
                  /\ calls[c].last = <<"delete", calls[c].id>>)
                => calls'[c].result # "ok"
          /\ (calls[c].pc = "entries" /\ calls'[c].pc = "returned"
                  /\ calls[c].last[1] = "delete")
                => \A i \in DOMAIN calls'[c].value :
                      calls'[c].value[i].id # calls[c].last[2]]_vars

\* A load of an id has failed right after the delete of that id, in a
\* directory that still holds other records.
C21_Witness ==
    \E c \in DOMAIN calls :
        /\ calls[c].pc = "returned" /\ calls[c].op = "load"
        /\ calls[c].last = <<"delete", calls[c].id>>
        /\ calls[c].result = "read error"
        /\ RecordFiles # {}

\* The terminal statuses of an execution record.
TerminalExecution == {"Completed", "Failed", "Aborted"}

\* C22: an execution record is created Running, before its agent is spawned;
\* its status changes from Running to a terminal status only; and once a
\* terminal status is stored the scheduler writes the record no more.
C22_ExecutionLifecycle ==
    [][\A e \in DOMAIN execs' :
          IF e \notin DOMAIN execs
          THEN /\ execs'[e].status = "Running"
               /\ \A w \in Workers : \A k \in DOMAIN joinset'[w] :
                     joinset'[w][k].meta = Some(execs'[e]) => joinset'[w][k].child = "none"
          ELSE /\ execs[e].status \in TerminalExecution => execs'[e] = execs[e]
               /\ execs'[e].status # execs[e].status
                     => execs[e].status = "Running" /\ execs'[e].status \in TerminalExecution]_vars

\* C23: an enqueue operation saves new tasks as Pending and leaves the record
\* of every task the store already holds as it is.
C23_EnqueueOnlyCreates ==
    [][ops' # ops =>
          /\ \A id \in DOMAIN tasks : id \in DOMAIN tasks' /\ tasks'[id] = tasks[id]
          /\ \A id \in DOMAIN tasks' \ DOMAIN tasks : tasks'[id].status = "Pending"]_vars

\* C24: every stored task has a priority from 1 to 100, whatever priority the
\* enqueue operations were asked for.
C24_PriorityRange ==
    \A id \in DOMAIN tasks : tasks[id].priority >= 1 /\ tasks[id].priority <= 100

\* An enqueue operation has stored a task at the upper end of the range.
C24_Witness ==
    /\ ops > 0
    /\ \E id \in DOMAIN tasks : tasks[id].priority = 100

\* The entries of the log for line no of a stream, with the execution and the
\* task named.
EntriesOf(stream, no) ==
    {i \in DOMAIN log :
        /\ log[i].stream = Some(stream)
        /\ log[i].execution_id = Some(LoggedMeta.execution_id)
        /\ log[i].task_id = Some(LoggedMeta.task_id)
        /\ IsSome(log[i].payload) /\ Unwrap(log[i].payload).of = <<stream, no>>}

\* C25: once the readers are done, every line of either stream that is not
\* empty has exactly one entry with execution_id, task_id and stream in the
\* log, whatever the line and the lines before it are.
C25_EveryLineLogged ==
    (\A stream \in DOMAIN output : output[stream].done)
        => \A stream \in DOMAIN output : \A no \in DOMAIN output[stream].lines :
              output[stream].lines[no] # "blank" => Cardinality(EntriesOf(stream, no)) = 1

\* C26: a Pending/Waiting task with at least one Failed dependency is in the
\* ready set of a listing, wherever that dependency stands in depends_on and
\* whatever the other dependencies are.
C26_ReadyWithFailedDependency ==
    \A id \in DOMAIN tasks :
        (/\ IsPending(tasks[id])
         /\ \E i \in DOMAIN tasks[id].depends_on :
               /\ tasks[id].depends_on[i] \in DOMAIN tasks
               /\ tasks[tasks[id].depends_on[i]].status = "Failed")
            => \E k \in DOMAIN ready_tasks(List(tasks)).ready :
                  ready_tasks(List(tasks)).ready[k] = id

\* The verify commands of a task that are not empty.
Commands(task) == {i \in DOMAIN task.verify : task.verify[i] # ""}

\* C27: a task is saved Completed only after exit code 0, every non-empty
\* verify command run with success in list order, and a successful auto-commit
\* when auto_commit is set; verify commands run only after exit code 0 and
\* none after the first that fails; no auto-commit after a failure.
C27_CompletedOnlyAfterPostSteps ==
    [][\A w \in Workers : \A k \in DOMAIN joinset[w] \cap DOMAIN joinset'[w] :
          LET old == joinset[w][k]
              new == joinset'[w][k]
          IN  /\ (old.pc = "save_task" /\ IsFinished(new)
                     /\ tasks'[old.tid].status = "Completed")
                    => /\ old.code = Some(0)
                       /\ {old.ran[j].no : j \in DOMAIN old.ran} = Commands(Unwrap(old.task))
                       /\ \A j \in DOMAIN old.ran : old.ran[j].ok
                       /\ Unwrap(old.task).auto_commit => old.commit \in {"clean", "committed"}
              /\ new.ran # <<>> => new.code = Some(0)
              /\ \A i, j \in DOMAIN new.ran : i < j => new.ran[i].ok /\ new.ran[i].no < new.ran[j].no
              /\ new.commit # "none"
                    => /\ new.code = Some(0)
                       /\ \A j \in DOMAIN new.ran : new.ran[j].ok
                       /\ Unwrap(new.task).auto_commit]_vars

\* A task is Completed after both of its verify commands and a commit.
C27_Witness ==
    \E w \in Workers : \E k \in DOMAIN joinset[w] :
        /\ IsFinished(joinset[w][k])
        /\ Len(joinset[w][k].ran) = 2
        /\ joinset[w][k].commit = "committed"
        /\ tasks[joinset[w][k].tid].status = "Completed"

\* The post-step an attempt failed in, if any.
FailedPostStep(inst) ==
    IF \E j \in DOMAIN inst.ran : ~inst.ran[j].ok THEN Some(Err("verification failed"))
    ELSE IF inst.commit = "failed" THEN Some(Err("auto-commit failed"))
    ELSE None

\* C28: when the agent exits 0 and a verify command or the auto-commit fails,
\* the execution record is saved Failed with exit_code 0 and the task Failed
\* with last_error naming the post-step; when the runner fails without an exit
\* code, the execution record has none.
C28_PostStepKeepsExitCode ==
    [][\A w \in Workers : \A k \in DOMAIN joinset[w] \cap DOMAIN joinset'[w] :
          LET old == joinset[w][k]
              new == joinset'[w][k]
              e == Unwrap(new.meta).execution_id
          IN  /\ (old.pc = "wait" /\ new.pc = "save_task" /\ IsSome(FailedPostStep(new)))
                    => /\ old.code = Some(0)
                       /\ execs'[e].status = "Failed"
                       /\ execs'[e].exit_code = Some(0)
                       /\ execs'[e].error = FailedPostStep(new)
              /\ (old.pc = "save_task" /\ IsFinished(new) /\ IsSome(FailedPostStep(old)))
                    => /\ tasks'[old.tid].status = "Failed"
                       /\ tasks'[old.tid].last_error = FailedPostStep(old)
              /\ (old.pc # "save_task" /\ new.pc = "save_task" /\ new.code = None)
                    => /\ execs'[e].status = "Failed"
                       /\ execs'[e].exit_code = None]_vars

\* An execution record is Failed with exit code 0 after a failed auto-commit.
C28_Witness ==
    \E e \in DOMAIN execs :
        /\ execs[e].status = "Failed"
        /\ execs[e].exit_code = Some(0)
        /\ execs[e].error = Some(Err("auto-commit failed"))
        /\ tasks[execs[e].task_id].status = "Failed"

\* C29: when the worktree cannot be resolved, the task and the execution
\* record of the attempt are saved Failed with the resolution error, and the
\* attempt ends without a runner: no agent process.
C29_ResolutionFailure ==
    [][\A w \in Workers : \A k \in DOMAIN joinset[w] \cap DOMAIN joinset'[w] :
          LET old == joinset[w][k]
              new == joinset'[w][k]
              msg == Some(Err("worktree resolution failed"))
          IN  (old.pc = "resolve" /\ Unwrap(new.meta).error = msg)
                 => /\ tasks'[old.tid].status = "Failed"
                    /\ tasks'[old.tid].last_error = msg
                    /\ execs'[Unwrap(old.meta).execution_id].status = "Failed"
                    /\ execs'[Unwrap(old.meta).execution_id].error = msg
                    /\ IsFinished(new) /\ new.ret = "ok"
                    /\ new.child = "none"]_vars

\* An attempt has ended on a resolution failure.
C29_Witness ==
    \E w \in Workers : \E k \in DOMAIN joinset[w] :
        /\ IsFinished(joinset[w][k])
        /\ joinset[w][k].err_str = Some(Err("worktree resolution failed"))
        /\ tasks[joinset[w][k].tid].status = "Failed"

\* C30: when an attempt that reached its runner concludes, the session_id of
\* the task names an execution record of the task's id, with the status of the
\* task and with the task's last_error as error.
C30_TaskAndExecutionAgree ==
    [][\A w \in Workers : \A k \in DOMAIN joinset[w] \cap DOMAIN joinset'[w] :
          (joinset[w][k].pc = "save_task" /\ IsFinished(joinset'[w][k]))
             => LET task == tasks'[joinset[w][k].tid] IN
                /\ task.status \in {"Completed", "Failed"}
                /\ IsSome(task.session_id)
                /\ Unwrap(task.session_id) \in DOMAIN execs'
                /\ execs'[Unwrap(task.session_id)].task_id = task.id
                /\ execs'[Unwrap(task.session_id)].status = task.status
                /\ execs'[Unwrap(task.session_id)].error = task.last_error]_vars

\* An attempt has concluded on a verification error, and the task and its
\* execution record are Failed with it.
C30_Witness ==
    \E id \in DOMAIN tasks :
        /\ tasks[id].status = "Failed"
        /\ tasks[id].last_error = Some(Err("verification failed"))
        /\ IsSome(tasks[id].session_id)
        /\ execs[Unwrap(tasks[id].session_id)].error = tasks[id].last_error
        /\ \E w \in Workers : \E k \in DOMAIN joinset[w] :
              IsFinished(joinset[w][k]) /\ joinset[w][k].tid = id /\ IsSome(joinset[w][k].code)

\* C31: the runner's timeout bounds the process-wait and both stream drains:
\* a runner that has not returned has not been waiting for longer than the
\* timeout, whether it waits for the process or for a reader task.
C31_TimeoutBoundsDrains ==
    \A w \in Workers : \A k \in DOMAIN joinset[w] :
        joinset[w][k].pc = "wait" => joinset[w][k].waited <= Timeout

\* C32: a worker started without --wait and left alone, on a queue whose
\* dependencies all resolve and form no cycle, with agent runs that all end,
\* eventually returns, and at its return every task is Completed or Failed.
C32_WorkerTermination ==
    (wpc[1] = "locked")
        ~> (/\ wpc[1] = "off" /\ wexit[1] = "ok"
            /\ \A id \in DOMAIN tasks : tasks[id].status \in {"Completed", "Failed"})

\* Task b depends on task a, directly or through a chain of at most n dependencies.
RECURSIVE DependsOn(_, _, _, _)
DependsOn(store, b, a, n) ==
    /\ n > 0
    /\ b \in DOMAIN store
    /\ \E i \in DOMAIN store[b].depends_on :
           LET d == store[b].depends_on[i] IN
           d = a \/ DependsOn(store, d, a, n - 1)

\* The pairs <<a, b>> of the chain in which b depends on a.
ChainPairs ==
    {p \in TaskIds \X TaskIds :
        \E q \in ChainQueues : DependsOn(q, p[2], p[1], Cardinality(TaskIds))}

\* C33: when a task is Failed, every task that depends on it, directly or
\* through a chain of dependencies, eventually is Failed without ever having
\* been started (no agent process was spawned for it).
C33_TransitiveFailure ==
    \A p \in ChainPairs :
        (/\ p[1] \in DOMAIN tasks /\ tasks[p[1]].status = "Failed"
         /\ DependsOn(tasks, p[2], p[1], Cardinality(TaskIds)))
            ~> (/\ p[2] \in DOMAIN tasks /\ tasks[p[2]].status = "Failed"
                /\ ~tasks[p[2]].started_at)

\* C34 as stated: a worker started without --wait, not stopped and not
\* interrupted, does not return while the store holds a Pending or Waiting task.
C34_NoReturnWhilePending ==
    [][\A w \in Workers :
          wpc[w] = "drain" /\ wpc'[w] = "off"
              => \A id \in DOMAIN tasks : ~IsPending(tasks[id])]_vars

\* C34: the loop pass that decides the exit for idleness has listed no Pending
\* or Waiting task, so a worker stays in its loop for as long as its listings
\* show a task whose dependency is missing or lies on a dependency cycle.
C34_NoIdleExitWhilePending ==
    [][\A w \in Workers :
          wpc[w] \in {"recovered", "loop"} /\ wpc'[w] = "drain"
              => \A id \in DOMAIN tasks : ~IsPending(tasks[id])]_vars

\* The loop has reaped a finished execution and goes on with nothing in
\* flight: the only tasks left are Pending ones that can never become ready.
C34_Witness ==
    /\ wpc[1] = "loop" /\ joinset[1] = <<>>
    /\ \E id \in DOMAIN tasks : tasks[id].status \in Terminal
    /\ \E id \in DOMAIN tasks : IsPending(tasks[id])
    /\ \A id \in DOMAIN tasks :
           IsPending(tasks[id]) => DepScan(tasks[id].depends_on, 1, tasks) = "blocked"

\* C35: a stop marker never outlives the worker it was written for: whenever
\* no worker holds the lock file, no stop marker is on disk.
C35_NoStaleStopMarker == ~IsSome(lock) => ~stop

\* C36: operator deletion is final: a record the store does not hold appears
\* in it only as the new Pending task of an enqueue operation, never as the
\* record an attempt in flight writes.
C36_DeletionIsFinal ==
    [][\A id \in DOMAIN tasks' \ DOMAIN tasks :
          \E q \in InitialQueues : tasks'[id] = q[id]]_vars

\* C37: whenever run_worker returns after it wrote the lock, Ok or with an
\* error, no task in the store is Running and no execution it launched is in
\* flight: none has begun without having finished, and no agent process lives.
C37_NothingRunningAtReturn ==
    [][\A w \in Workers :
          Active(w) /\ wpc'[w] = "off" /\ wexit'[w] \in {"ok", "error"}
              => /\ \A id \in DOMAIN tasks' : tasks'[id].status # "Running"
                 /\ \A k \in DOMAIN joinset[w] :
                        /\ joinset[w][k].pc \in {"spawned", "finished"}
                        /\ joinset[w][k].child # "alive"]_vars

\* C38: crash recovery changes only status and last_error of the tasks that
\* were Running: their other fields (started_at and session_id among them),
\* every other task and every execution record are left as they were, so the
\* execution record of an interrupted attempt is still Running afterwards.
C38_RecoveryFrame ==
    [][\A w \in Workers :
          wpc[w] = "locked" /\ wpc'[w] = "recovered"
              => /\ DOMAIN tasks' = DOMAIN tasks
                 /\ \A id \in DOMAIN tasks :
                        IF tasks[id].status = "Running"
                        THEN /\ tasks'[id] = [tasks[id] EXCEPT
                                                 !.status = tasks'[id].status,
                                                 !.last_error = tasks'[id].last_error]
                             /\ \A e \in DOMAIN execs :
                                    execs[e].task_id = id /\ execs[e].status = "Running"
                                        => e \in DOMAIN execs' /\ execs'[e].status = "Running"
                        ELSE tasks'[id] = tasks[id]
                 /\ execs' = execs]_vars

\* A restarted worker has recovered a task that a crash left Running: the task
\* is Pending with the recovery's last_error, and still carries started_at and
\* the session id of the interrupted attempt, whose record is still Running.
C38_Witness ==
    /\ wpc[1] = "recovered"
    /\ wexit[1] = "none"
    /\ \E id \in DOMAIN tasks :
           /\ tasks[id].status = "Pending"
           /\ tasks[id].last_error = Some(StaleRunning)
           /\ tasks[id].started_at
           /\ IsSome(tasks[id].session_id)
           /\ execs[Unwrap(tasks[id].session_id)].status = "Running"
           /\ execs[Unwrap(tasks[id].session_id)].task_id = id

====
